---- MODULE Spec2Model ----
(***************************************************************************)
(* A model of the dataset-synthesis core of query-package-documentation:   *)
(* the package walk (step_1_generation.py), the template generators and    *)
(* the split allocator (step_2_generation.py), the schema classes          *)
(* (utils_generation.py) and the assembler / serializer                    *)
(* (orchestrate_generation.py).                                            *)
(*                                                                         *)
(* Python strings are sequences of one-character strings, so that          *)
(* substring tests, prefixes, splitting, joining and escaping are          *)
(* computed, not assumed.                                                  *)
(***************************************************************************)
EXTENDS Integers, Sequences, FiniteSets, TLC

VARIABLES
    world,               \* the import state: which packages and modules exist, how they import
    pc,                  \* per build: the position of generate_raw_datasets and its callers
    sub_packages_stack,  \* per build: get_all_package_contents' work stack
    package_contents,    \* per build: get_all_package_contents' result list
    walk_log,            \* per build: the entries popped so far, with what became of each
    random_state,        \* the state of the global random generator (random.seed(a=0) at import)
    call,                \* the function applied and its arguments
    returned,            \* what the call returned or raised
    files,               \* the file system: the content of each path, or Absent
    all_module_contents, \* per build: the ModuleDetails enlisted so far
    all_member_details,  \* per build: the MemberDetails enlisted so far
    member_datasets,     \* per build: the tuples the unpacking of member_datasets gave
    raw_datasets,        \* per build: the list the chained datasets are collected in
    json_datasets,       \* per build: the JSONDataset converted (json_dataset), or None
    allocated,           \* the allocate_tuning_pairs calls followed one by one, in call order
    callback,            \* the CaptureDetailsCallback of a run: its two attributes
    perf_counter         \* the reading time.perf_counter() gives now

vars == <<world, pc, sub_packages_stack, package_contents, walk_log,
          random_state, call, returned, files,
          all_module_contents, all_member_details, member_datasets, raw_datasets,
          json_datasets, allocated, callback, perf_counter>>

\* Results: a returned value, or the exception raised.
Ok(v) == [ok |-> TRUE, val |-> v]
Err(e) == [ok |-> FALSE, err |-> e]
NoCall == [fn |-> "none"]
NotReturned == [ok |-> FALSE, err |-> "pending"]

(***************************************************************************)
(* Strings.                                                                *)
(***************************************************************************)
RECURSIVE Join(_, _)
\* sep.join(parts)
Join(parts, sep) ==
    IF parts = <<>> THEN <<>>
    ELSE IF Len(parts) = 1 THEN parts[1]
    ELSE parts[1] \o sep \o Join(Tail(parts), sep)

\* pat in s
HasSubstr(s, pat) ==
    \E i \in 0..(Len(s) - Len(pat)) : SubSeq(s, i + 1, i + Len(pat)) = pat

\* s.removeprefix(p)
RemovePrefix(s, p) ==
    IF Len(p) <= Len(s) /\ SubSeq(s, 1, Len(p)) = p THEN SubSeq(s, Len(p) + 1, Len(s))
    ELSE s

RECURSIVE Split(_, _)
\* s.split(ch) for a one-character separator
Split(s, ch) ==
    IF \A i \in 1..Len(s) : s[i] # ch THEN <<s>>
    ELSE LET k == CHOOSE i \in 1..Len(s) : s[i] = ch /\ \A j \in 1..(i - 1) : s[j] # ch
         IN <<SubSeq(s, 1, k - 1)>> \o Split(SubSeq(s, k + 1, Len(s)), ch)

Last(s) == s[Len(s)]

\* f"'{name}'"
Quoted(name) == <<"'">> \o name \o <<"'">>

(***************************************************************************)
(* The import state.  A world is a root package name, what happens when    *)
(* the root is resolved, and the tree below the root: each node is a path  *)
(* of segments relative to the root, a sub-package when its last segment   *)
(* is in PkgSegs and a module when it is in ModSegs.                       *)
(***************************************************************************)
MaxDepth == 2       \* nodes lie at most this many levels below the root
MaxNodes == 3       \* a world has at most this many nodes below the root

PkgSegs == {"b", "c", "tests"}
ModSegs == {"m", "xtests"}
RootNames == {<<"a">>, <<"xtests">>, <<"a", "b">>}

\* The characters of a segment.
SegChars(seg) ==
    CASE seg = "a" -> <<"a">>
      [] seg = "b" -> <<"b">>
      [] seg = "c" -> <<"c">>
      [] seg = "m" -> <<"m">>
      [] seg = "tests" -> <<"t", "e", "s", "t", "s">>
      [] seg = "xtests" -> <<"x", "t", "e", "s", "t", "s">>

\* File names are listed in sorted order (pkgutil.iter_modules sorts them).
SegRank(seg) ==
    CASE seg = "a" -> 1
      [] seg = "b" -> 2
      [] seg = "c" -> 3
      [] seg = "m" -> 4
      [] seg = "tests" -> 5
      [] seg = "xtests" -> 6

DOT == <<".">>

\* The dotted name of a path of segments.
Dotted(path) == Join([i \in 1..Len(path) |-> SegChars(path[i])], DOT)

Parent(p) == SubSeq(p, 1, Len(p) - 1)
IsPkgPath(p) == p = <<>> \/ Last(p) \in PkgSegs

\* What resolving a package does: "ok"; "find_spec_none": importlib.util.find_spec
\* returns None; "find_spec_import_error": find_spec raises ImportError (the leading
\* package of a dotted name is missing); "import_error": importlib.import_module
\* raises ImportError.
RootStatus == {"ok", "find_spec_none", "find_spec_import_error", "import_error"}
SubStatus == {"ok", "find_spec_none", "import_error"}

Candidates(t) ==
    {p \o <<s>> : p \in {q \in t \cup {<<>>} : IsPkgPath(q) /\ Len(q) < MaxDepth},
                  s \in PkgSegs \cup ModSegs} \ t

RECURSIVE Trees(_)
Trees(k) ==
    IF k = 0 THEN {{}}
    ELSE LET prev == Trees(k - 1)
         IN prev \cup UNION {{t \cup {n} : n \in Candidates(t)} : t \in prev}

PkgsOf(t) == {p \in t : IsPkgPath(p)}
ModsOf(t) == {p \in t : ~IsPkgPath(p)}

\* Nothing lies below a package that does not import: such children could never be
\* seen by the program.
Canonical(t, st) ==
    \A p \in t : Len(p) > 1 => st[Parent(p)] = "ok"

OkWorlds(r) ==
    UNION {{[root |-> r, root_status |-> "ok", nodes |-> t, status |-> st] :
               st \in {f \in [PkgsOf(t) -> SubStatus] : Canonical(t, f)}} :
           t \in Trees(MaxNodes)}

\* A root that does not resolve has nothing below it the program could see.
\* find_spec raises ImportError only for a dotted name (it imports the leading package).
FailWorlds(r) ==
    {[root |-> r, root_status |-> rs, nodes |-> {}, status |-> <<>>] :
        rs \in {x \in RootStatus \ {"ok"} : x = "find_spec_import_error" => Len(r) > 1}}

Worlds == UNION {OkWorlds(r) \cup FailWorlds(r) : r \in RootNames}

\* Optional values: None is distinct from every value, the empty string included.
None == [some |-> FALSE]
Some(v) == [some |-> TRUE, val |-> v]

\* The package's __doc__ and __all__ (fixed by the package's last segment, so that
\* both the documented and the undocumented branch occur).
PackageDoc(path) ==
    IF path # <<>> /\ Last(path) = "b" THEN Some(<<"d", "o", "c">>) ELSE None
PackageAll(path) ==
    IF path # <<>> /\ Last(path) = "b" THEN Some(<<<<"f">>, <<"g">>>>) ELSE None

(***************************************************************************)
(* step_1_generation.py: import_package and get_all_package_contents.      *)
(***************************************************************************)
Builds == {1, 2}

\* The locals of generate_raw_datasets and of its caller, past the walk.
build_vars == <<all_module_contents, all_member_details, member_datasets, raw_datasets,
                json_datasets, allocated, callback, perf_counter>>

\* No build has got past its walk.
BuildIdle ==
    /\ all_module_contents = [b \in Builds |-> <<>>]
    /\ all_member_details = [b \in Builds |-> <<>>]
    /\ member_datasets = [b \in Builds |-> <<>>]
    /\ raw_datasets = [b \in Builds |-> <<>>]
    /\ json_datasets = [b \in Builds |-> None]
    /\ allocated = <<>>
    /\ callback = [effective_prompt |-> [some |-> FALSE],
                   effective_duration |-> [some |-> FALSE]]
    /\ perf_counter = 0

\* The node of world w whose dotted name is name (the root is the empty path).
NodeOf(w, name) ==
    CHOOSE p \in PkgsOf(w.nodes) \cup {<<>>} : Dotted(w.root \o p) = name

StatusOf(w, name) ==
    LET p == NodeOf(w, name) IN IF p = <<>> THEN w.root_status ELSE w.status[p]

\* import_package: "ValueError" when find_spec returns None, "ImportError" when
\* find_spec raises it, else the loader module.
import_package(w, name) ==
    CASE StatusOf(w, name) = "find_spec_none" -> "ValueError"
      [] StatusOf(w, name) = "find_spec_import_error" -> "ImportError"
      [] OTHER -> "module"

\* importlib.import_module(name)
import_module(w, name) ==
    IF StatusOf(w, name) = "import_error" THEN "ImportError" ELSE "module"

RECURSIVE SortPaths(_)
\* The paths of a set of siblings, in the order of their file names.
SortPaths(ps) ==
    IF ps = {} THEN <<>>
    ELSE LET lo == CHOOSE p \in ps : \A q \in ps : SegRank(Last(p)) <= SegRank(Last(q))
         IN <<lo>> \o SortPaths(ps \ {lo})

RECURSIVE WalkFrom(_, _)
RECURSIVE WalkList(_, _)
\* pkgutil.walk_packages below node p: every child, each package child that imports
\* followed by its own descendants; names carry the full dotted prefix.
WalkFrom(w, p) ==
    WalkList(w, SortPaths({c \in w.nodes : Len(c) = Len(p) + 1 /\ Parent(c) = p}))
WalkList(w, cs) ==
    IF cs = <<>> THEN <<>>
    ELSE LET c == cs[1]
         IN <<[name |-> Dotted(w.root \o c), ispkg |-> IsPkgPath(c)]>>
            \o (IF IsPkgPath(c) /\ w.status[c] = "ok" THEN WalkFrom(w, c) ELSE <<>>)
            \o WalkList(w, Tail(cs))

\* The filter of lines 110-114: TRUE when the walked name is kept.
KeepChild(name, current_package_name) ==
    /\ ~HasSubstr(name, <<"t", "e", "s", "t", "s">>)
    /\ ~HasSubstr(RemovePrefix(name, current_package_name \o DOT), DOT)

RECURSIVE SelectSeq2(_, _, _, _)
\* The walked names kept for the current package, packages or modules.
SelectSeq2(walked, current_package_name, wantpkg, acc) ==
    IF walked = <<>> THEN acc
    ELSE SelectSeq2(Tail(walked), current_package_name, wantpkg,
                    IF KeepChild(walked[1].name, current_package_name)
                       /\ walked[1].ispkg = wantpkg
                    THEN Append(acc, walked[1].name) ELSE acc)

\* The record with the short name stored as the qualified name.
PackageDetails_ShortQualifiedName(w, current_package_name, parent_package_name, sub_packages, modules) ==
    LET current_package_hierarchy == Split(current_package_name, ".")
    IN [package_name |-> Last(current_package_hierarchy),
        package_qualified_name |-> Last(current_package_hierarchy),
        package_hierarchy |-> current_package_hierarchy,
        parent_package_name |-> parent_package_name,
        children_sub_packages_names |->
            [i \in 1..Len(sub_packages) |->
                RemovePrefix(sub_packages[i], current_package_name \o DOT)],
        children_modules_names |->
            [i \in 1..Len(modules) |->
                RemovePrefix(modules[i], current_package_name \o DOT)],
        package_summary |-> PackageDoc(NodeOf(w, current_package_name)),
        package_all_exports |-> PackageAll(NodeOf(w, current_package_name))]

PackageDetails(w, current_package_name, parent_package_name, sub_packages, modules) ==
    LET current_package_hierarchy == Split(current_package_name, ".")
    IN [package_name |-> Last(current_package_hierarchy),
        package_qualified_name |-> current_package_name,
        package_hierarchy |-> current_package_hierarchy,
        parent_package_name |-> parent_package_name,
        children_sub_packages_names |->
            [i \in 1..Len(sub_packages) |->
                RemovePrefix(sub_packages[i], current_package_name \o DOT)],
        children_modules_names |->
            [i \in 1..Len(modules) |->
                RemovePrefix(modules[i], current_package_name \o DOT)],
        package_summary |-> PackageDoc(NodeOf(w, current_package_name)),
        package_all_exports |-> PackageAll(NodeOf(w, current_package_name))]

\* One iteration of the while loop of get_all_package_contents (lines 85-141), and the
\* return of line 143 when it leaves the stack empty.
WalkStep(b) ==
    /\ pc[b] = "walk"
    /\ sub_packages_stack[b] # <<>>
    /\ LET stack == sub_packages_stack[b]
           entry == stack[Len(stack)]
           rest == SubSeq(stack, 1, Len(stack) - 1)
           current_package_name == entry[1]
           parent_package_name == entry[2]
           loader == import_package(world, current_package_name)
           package == import_module(world, current_package_name)
           walked == WalkFrom(world, NodeOf(world, current_package_name))
           current_package_sub_packages ==
               SelectSeq2(walked, current_package_name, TRUE, <<>>)
           current_package_modules ==
               SelectSeq2(walked, current_package_name, FALSE, <<>>)
           pushed == [i \in 1..Len(current_package_sub_packages) |->
                         <<current_package_sub_packages[i], Some(current_package_name)>>]
       IN IF loader = "ValueError"
          THEN \* line 60: not an ImportError, so it leaves the function
               /\ pc' = [pc EXCEPT ![b] = "ValueError"]
               /\ sub_packages_stack' = [sub_packages_stack EXCEPT ![b] = rest]
               /\ walk_log' = [walk_log EXCEPT ![b] =
                      Append(@, [name |-> current_package_name, outcome |-> "raised"])]
               /\ UNCHANGED package_contents
          ELSE IF loader = "ImportError" \/ package = "ImportError"
          THEN \* lines 92-95 and 99-102: logged and skipped
               /\ pc' = [pc EXCEPT ![b] = IF rest = <<>> THEN "walked" ELSE "walk"]
               /\ sub_packages_stack' = [sub_packages_stack EXCEPT ![b] = rest]
               /\ walk_log' = [walk_log EXCEPT ![b] =
                      Append(@, [name |-> current_package_name, outcome |-> "skipped"])]
               /\ UNCHANGED package_contents
          ELSE /\ package_contents' = [package_contents EXCEPT ![b] =
                      Append(@, PackageDetails(world, current_package_name,
                                               parent_package_name,
                                               current_package_sub_packages,
                                               current_package_modules))]
               /\ sub_packages_stack' = [sub_packages_stack EXCEPT ![b] = rest \o pushed]
               /\ pc' = [pc EXCEPT ![b] = IF rest \o pushed = <<>> THEN "walked" ELSE "walk"]
               /\ walk_log' = [walk_log EXCEPT ![b] =
                      Append(@, [name |-> current_package_name, outcome |-> "emitted"])]
    /\ UNCHANGED <<world, build_vars>>

\* No walk is running.
WalkIdle ==
    /\ world = [root |-> <<"a">>, root_status |-> "ok", nodes |-> {}, status |-> <<>>]
    /\ pc = [b \in Builds |-> "idle"]
    /\ sub_packages_stack = [b \in Builds |-> <<>>]
    /\ package_contents = [b \in Builds |-> <<>>]
    /\ walk_log = [b \in Builds |-> <<>>]
    /\ BuildIdle

walk_vars == <<world, pc, sub_packages_stack, package_contents, walk_log, build_vars>>

Paths == {"p1", "p2"}
Absent == [exists |-> FALSE]

\* No function call is traced and no file exists.
CallIdle == call = NoCall /\ returned = NotReturned /\ files = [p \in Paths |-> Absent]

\* random.seed(a=0), line 22 of step_2_generation.py.
Seed == 0

\* get_all_package_contents(package_name) is called by build 1: lines 81-83.
InitWalk ==
    /\ world \in Worlds
    /\ pc = [b \in Builds |-> IF b = 1 THEN "walk" ELSE "idle"]
    /\ sub_packages_stack =
           [b \in Builds |-> IF b = 1 THEN <<<<Dotted(world.root), None>>>> ELSE <<>>]
    /\ package_contents = [b \in Builds |-> <<>>]
    /\ walk_log = [b \in Builds |-> <<>>]
    /\ BuildIdle
    /\ CallIdle
    /\ random_state = Seed

SpecWalk ==
    InitWalk
    /\ [][\E b \in Builds :
              WalkStep(b) /\ UNCHANGED <<random_state, call, returned, files>>]_vars

(***************************************************************************)
(* C1.                                                                     *)
(***************************************************************************)
RootRecords(records) ==
    {i \in 1..Len(records) : records[i].parent_package_name = None}

ParentsResolve(records) ==
    \A i \in 1..Len(records) :
        records[i].parent_package_name # None =>
            \E j \in 1..Len(records) :
                /\ j # i
                /\ records[j].package_qualified_name = records[i].parent_package_name.val

\* C1 as claimed: after any walk, exactly one record has parent None and every other
\* record's parent is the qualified name of another record of the list.
C1_Original ==
    \A b \in Builds :
        pc[b] = "walked" =>
            /\ Cardinality(RootRecords(package_contents[b])) = 1
            /\ ParentsResolve(package_contents[b])

\* C1 (amended): a walk returns the empty list exactly when resolving the root raised
\* ImportError; every non-empty result has exactly one record with parent None, and
\* every other record's parent is the qualified name of another record of the list.
C1_RootInvariant ==
    \A b \in Builds :
        pc[b] = "walked" =>
            /\ package_contents[b] = <<>> <=>
                   world.root_status \in {"find_spec_import_error", "import_error"}
            /\ package_contents[b] # <<>> =>
                   /\ Cardinality(RootRecords(package_contents[b])) = 1
                   /\ ParentsResolve(package_contents[b])

\* A finished walk that emitted a record two levels below the root.
C1_Witness ==
    /\ pc[1] = "walked"
    /\ \E i \in 1..Len(package_contents[1]) :
           /\ package_contents[1][i].parent_package_name # None
           /\ package_contents[1][i].parent_package_name.val # Dotted(world.root)

\* What every iteration of the while loop of line 85 does in build 1, whatever its
\* outcome: the entry on top of the stack is popped and entered in the log.
PopNext ==
    /\ pc[1] = "walk"
    /\ sub_packages_stack[1] # <<>>
    /\ \E outcome \in {"raised", "skipped", "emitted"} :
           walk_log' = [walk_log EXCEPT ![1] =
               Append(@, [name |-> Last(sub_packages_stack[1])[1], outcome |-> outcome])]

\* The walk of build 1 with its loop running on: while the stack holds an entry the
\* next iteration is taken.
SpecWalkFair == SpecWalk /\ WF_walk_log(PopNext)

\* No entry is popped twice, no entry waiting on the stack was popped before, every
\* record is the root's or that of a sub-package listed by the record of its parent,
\* made earlier, and no two records have the same qualified name.
C27_PoppedOnce ==
    LET log == walk_log[1]
        stack == sub_packages_stack[1]
        records == package_contents[1]
    IN /\ \A i, j \in 1..Len(log) : log[i].name = log[j].name => i = j
       /\ \A i \in 1..Len(stack) : \A j \in 1..Len(log) : stack[i][1] # log[j].name
       /\ \A k \in 1..Len(records) :
              \/ /\ records[k].parent_package_name = None
                 /\ records[k].package_qualified_name = Dotted(world.root)
              \/ \E j \in 1..(k - 1) :
                     /\ records[k].parent_package_name
                            = Some(records[j].package_qualified_name)
                     /\ \E c \in 1..Len(records[j].children_sub_packages_names) :
                            records[k].package_qualified_name
                                = records[j].package_qualified_name \o DOT
                                  \o records[j].children_sub_packages_names[c]
       /\ \A i, j \in 1..Len(records) :
              records[i].package_qualified_name = records[j].package_qualified_name
                  => i = j

\* C27: get_all_package_contents terminates on every finite package tree: every
\* entry pushed is popped exactly once and the stack becomes empty in the end; a
\* record is emitted only for an entry its parent's processing pushed, or the root,
\* and no qualified name has two records.
C27_WalkTerminates ==
    /\ []C27_PoppedOnce
    /\ <>[](sub_packages_stack[1] = <<>>)

(***************************************************************************)
(* C12, C13, C14: what the walk does with names that do not resolve, and   *)
(* which children a record lists.                                          *)
(***************************************************************************)
\* C12: a sub-package popped from the stack that cannot be resolved (find_spec finds
\* nothing) or imported (ImportError) is logged and skipped: no record is emitted for
\* it, the rest of the stack is still processed and the walk returns without raising.
C12_SubPackageSkipped ==
    \A b \in Builds :
        \A i \in 1..Len(walk_log[b]) :
            (/\ walk_log[b][i].name # Dotted(world.root)
             /\ StatusOf(world, walk_log[b][i].name) # "ok")
            => /\ walk_log[b][i].outcome = "skipped"
               /\ pc[b] \in {"walk", "walked"}
               /\ \A j \in 1..Len(package_contents[b]) :
                      package_contents[b][j].package_qualified_name # walk_log[b][i].name

\* C13: a walk whose root name cannot be resolved (find_spec finds nothing, or the
\* leading package of a dotted root name is missing) raises to the caller and never
\* returns a result list.
C13_RootNotFoundRaises ==
    \A b \in Builds :
        (/\ world.root_status \in {"find_spec_none", "find_spec_import_error"}
         /\ walk_log[b] # <<>>)
        => pc[b] = "ValueError"

HasTestsSegment(path) == \E i \in 1..Len(path) : path[i] = "tests"

\* C14: the two children lists of every emitted record hold exactly the direct
\* children of the package, prefix stripped, except those whose dotted name has a
\* segment "tests"; the letters inside a longer segment or in the root name exclude
\* nothing.
C14_ChildrenFilter ==
    \A b \in Builds :
        \A i \in 1..Len(package_contents[b]) :
            LET record == package_contents[b][i]
                p == NodeOf(world, record.package_qualified_name)
                kept == {c \in world.nodes :
                            Parent(c) = p /\ ~HasTestsSegment(world.root \o c)}
                names(s) == {s[k] : k \in 1..Len(s)}
            IN /\ names(record.children_sub_packages_names)
                      = {SegChars(Last(c)) : c \in {k \in kept : IsPkgPath(k)}}
               /\ names(record.children_modules_names)
                      = {SegChars(Last(c)) : c \in {k \in kept : ~IsPkgPath(k)}}

(***************************************************************************)
(* utils_generation.py: SplitName and SplitProportions.  A proportion is   *)
(* an integer number of tenths, so One stands for 1.0; sums are exact      *)
(* (the rounding of binary floating point is not modelled).                *)
(***************************************************************************)
One == 10

SplitName == {"train", "validation", "test"}

\* Field(gt=0, lt=1) of lines 400-402.
FieldInRange(x) == x > 0 /\ x < One

\* validate_proportions, lines 404-421: TRUE when the model validator passes.
validate_proportions_AtMostOne(t, v, s) == t + v + s <= One
validate_proportions(t, v, s) == ~(t + v + s # One)

\* SplitProportions(train_proportion=t, validation_proportion=v, test_proportion=s)
SplitProportions(t, v, s) ==
    IF ~(FieldInRange(t) /\ FieldInRange(v) /\ FieldInRange(s))
    THEN Err("ValidationError")
    ELSE IF ~validate_proportions(t, v, s)
    THEN Err("ValidationError")
    ELSE Ok([train_proportion |-> t, validation_proportion |-> v, test_proportion |-> s])

\* Lines 26-28 of step_2_generation.py.
DEFAULT_SPLIT_PROPORTIONS == SplitProportions(6, 2, 2).val

InitProportions ==
    /\ WalkIdle
    /\ files = [p \in Paths |-> Absent]
    /\ random_state = Seed
    \* the tenths from 0 to 1, and one value beyond each end
    /\ \E t \in (0 - 1)..(One + 1), v \in (0 - 1)..(One + 1), s \in (0 - 1)..(One + 1) :
           call = [fn |-> "SplitProportions", train_proportion |-> t,
                   validation_proportion |-> v, test_proportion |-> s]
    /\ returned = NotReturned

\* The constructor runs.
Construct ==
    /\ call.fn = "SplitProportions"
    /\ returned = NotReturned
    /\ returned' = SplitProportions(call.train_proportion, call.validation_proportion,
                                    call.test_proportion)
    /\ UNCHANGED <<call, random_state, walk_vars, files>>

SpecProportions == InitProportions /\ [][Construct]_vars

RandomNext(st) == (st * 25173 + 13849) % 65536

\* bisect.bisect(cum_weights, random() * total, 0, hi): the number of the first hi
\* cumulative weights that are <= random() * total.
Bisect(cum_weights, st, total, hi) ==
    Cardinality({j \in 1..hi : cum_weights[j] * 65536 <= st * total})

RECURSIVE Choices(_, _, _, _)
\* random.choices(population, weights=weights, k=k) from generator state st:
\* the k picks and the state they leave.
Choices(st, population, weights, k) ==
    IF k <= 0 THEN [picks |-> <<>>, state |-> st]
    ELSE LET cum_weights == [i \in 1..Len(weights) |->
                                IF i = 1 THEN weights[1]
                                ELSE IF i = 2 THEN weights[1] + weights[2]
                                ELSE weights[1] + weights[2] + weights[3]]
             total == cum_weights[Len(weights)]
             st1 == RandomNext(st)
             pick == population[Bisect(cum_weights, st1, total, Len(population) - 1) + 1]
             more == Choices(st1, population, weights, k - 1)
         IN [picks |-> <<pick>> \o more.picks, state |-> more.state]

\* zip(tuning_pairs, allocations, strict=True) of lines 60-63.
ZipStrict(tuning_pairs, allocations) ==
    IF Len(tuning_pairs) # Len(allocations) THEN Err("ValueError")
    ELSE Ok([i \in 1..Len(tuning_pairs) |->
                <<tuning_pairs[i][1], tuning_pairs[i][2], allocations[i]>>])

\* The allocator drawing one label too few.
allocate_tuning_pairs_OneDrawShort(tuning_pairs, split_proportions, st) ==
    LET ch == Choices(st, <<"train", "validation", "test">>,
                      <<split_proportions.train_proportion,
                        split_proportions.validation_proportion,
                        split_proportions.test_proportion>>,
                      Len(tuning_pairs) - 1)
    IN [result |-> ZipStrict(tuning_pairs, ch.picks), state |-> ch.state]

\* The allocator drawing from a generator of its own, seeded at each call.
allocate_tuning_pairs_OwnGenerator(tuning_pairs, split_proportions, st) ==
    LET ch == Choices(Seed, <<"train", "validation", "test">>,
                      <<split_proportions.train_proportion,
                        split_proportions.validation_proportion,
                        split_proportions.test_proportion>>,
                      Len(tuning_pairs))
    IN [result |-> ZipStrict(tuning_pairs, ch.picks), state |-> st]

\* The allocator seeding the generator again at each call.
allocate_tuning_pairs_Reseeds(tuning_pairs, split_proportions, st) ==
    LET ch == Choices(Seed, <<"train", "validation", "test">>,
                      <<split_proportions.train_proportion,
                        split_proportions.validation_proportion,
                        split_proportions.test_proportion>>,
                      Len(tuning_pairs))
    IN [result |-> ZipStrict(tuning_pairs, ch.picks), state |-> ch.state]

\* allocate_tuning_pairs, lines 31-63: the result, and the generator state left.
allocate_tuning_pairs(tuning_pairs, split_proportions, st) ==
    LET ch == Choices(st, <<"train", "validation", "test">>,
                      <<split_proportions.train_proportion,
                        split_proportions.validation_proportion,
                        split_proportions.test_proportion>>,
                      Len(tuning_pairs))
    IN [result |-> ZipStrict(tuning_pairs, ch.picks), state |-> ch.state]

MaxPairs == 3        \* a batch handed to the allocator has at most this many pairs
MaxPriorDraws == 3   \* the allocator is called after at most this many earlier draws

RECURSIVE StreamFrom(_, _)
\* The generator state n draws after state st.  The draws are taken by halves and
\* st is read first (a state is never negative), which keeps the evaluation shallow.
StreamFrom(st, n) ==
    IF st < 0 \/ n = 0 THEN st
    ELSE IF n = 1 THEN RandomNext(st)
    ELSE LET mid == StreamFrom(st, n \div 2) IN StreamFrom(mid, n - (n \div 2))

\* The generator state after n draws since the seeding.
StreamState(n) == StreamFrom(Seed, n)

RECURSIVE SeqsUpTo(_, _)
\* The sequences over S of length at most n.
SeqsUpTo(S, n) ==
    IF n = 0 THEN {<<>>}
    ELSE LET shorter == SeqsUpTo(S, n - 1)
         IN shorter \cup {Append(q, x) : q \in shorter, x \in S}

\* The proportion configurations that pass validation.
ValidProportions ==
    {SplitProportions(c[1], c[2], c[3]).val :
        c \in {d \in (1..(One - 1)) \X (1..(One - 1)) \X (1..(One - 1)) :
                  SplitProportions(d[1], d[2], d[3]).ok}}

InitAllocate ==
    /\ WalkIdle
    /\ files = [p \in Paths |-> Absent]
    /\ \E n \in 0..MaxPriorDraws : random_state = StreamState(n)
    /\ \E tuning_pairs \in SeqsUpTo({<<"q", "1">>, <<"q", "2">>} \X {<<"a", "1">>, <<"a", "2">>}, MaxPairs),
          split_proportions \in ValidProportions :
           call = [fn |-> "allocate_tuning_pairs", tuning_pairs |-> tuning_pairs,
                   split_proportions |-> split_proportions, state |-> random_state]
    /\ returned = NotReturned

\* allocate_tuning_pairs runs.
Allocate ==
    /\ call.fn = "allocate_tuning_pairs"
    /\ returned = NotReturned
    /\ LET r == allocate_tuning_pairs(call.tuning_pairs, call.split_proportions,
                                      random_state)
       IN /\ returned' = r.result
          /\ random_state' = r.state
    /\ UNCHANGED <<call, walk_vars, files>>

\* The caller hands the same batch to allocate_tuning_pairs a second time, in the
\* same process: the generator is in the state the first call left.
Reallocate ==
    /\ call.fn = "allocate_tuning_pairs"
    /\ returned # NotReturned
    /\ "previous" \notin DOMAIN call
    /\ call' = [fn |-> "allocate_tuning_pairs", tuning_pairs |-> call.tuning_pairs,
                split_proportions |-> call.split_proportions, state |-> random_state,
                previous |-> [state |-> call.state, result |-> returned]]
    /\ returned' = NotReturned
    /\ UNCHANGED <<random_state, walk_vars, files>>

SpecAllocate == InitAllocate /\ [][Allocate \/ Reallocate]_vars

\* C3: allocate_tuning_pairs returns a list as long as its input whose i-th entry is
\* the i-th input question and answer, unchanged, with one label of
\* {train, validation, test}.
C3_AllocationShape ==
    (call.fn = "allocate_tuning_pairs" /\ returned # NotReturned) =>
        /\ returned.ok
        /\ Len(returned.val) = Len(call.tuning_pairs)
        /\ \A i \in 1..Len(call.tuning_pairs) :
               /\ returned.val[i][1] = call.tuning_pairs[i][1]
               /\ returned.val[i][2] = call.tuning_pairs[i][2]
               /\ returned.val[i][3] \in {"train", "validation", "test"}

\* A batch of three pairs was allocated and got at least two different labels.
C3_Witness ==
    /\ call.fn = "allocate_tuning_pairs"
    /\ returned.ok
    /\ Len(call.tuning_pairs) = 3
    /\ Len(returned.val) = 3
    /\ \E i, j \in 1..3 : returned.val[i][3] # returned.val[j][3]

\* The labels random.choices draws for a batch of k pairs with the given
\* proportions when n draws were made earlier in the process.
C21_LabelsAfter(n, split_proportions, k) ==
    Choices(StreamState(n), <<"train", "validation", "test">>,
            <<split_proportions.train_proportion,
              split_proportions.validation_proportion,
              split_proportions.test_proportion>>, k).picks

\* C21: the generator is seeded once, with 0, and never seeded again: its state is
\* always the state some number of draws after seed 0; the labels a call returns
\* are those fixed by the proportions, the number of pairs and the number of draws
\* made earlier; and a second allocation of the same input starts where the first
\* one stopped.
C21_SeededOnce ==
    call.fn = "allocate_tuning_pairs" =>
        /\ \E n \in 0..(MaxPriorDraws + 2 * MaxPairs) :
               /\ call.state = StreamState(n)
               /\ returned = NotReturned => random_state = call.state
               /\ returned # NotReturned =>
                      /\ returned.ok
                      /\ [i \in 1..Len(returned.val) |-> returned.val[i][3]]
                             = C21_LabelsAfter(n, call.split_proportions,
                                               Len(call.tuning_pairs))
                      /\ random_state = StreamState(n + Len(call.tuning_pairs))
        /\ "previous" \in DOMAIN call =>
               call.state = StreamFrom(call.previous.state, Len(call.tuning_pairs))

\* The same batch of three pairs was allocated twice in one process and the second
\* call returned labels other than the first call's.
C21_Witness ==
    /\ call.fn = "allocate_tuning_pairs"
    /\ "previous" \in DOMAIN call
    /\ returned # NotReturned
    /\ returned.ok
    /\ Len(call.tuning_pairs) = 3
    /\ returned.val # call.previous.result.val

(***************************************************************************)
(* step_2_generation.py: enumerate_array_elements.  An element is a string *)
(* or an object with named attributes.                                     *)
(***************************************************************************)
StrElement(chars) == [isstr |-> TRUE, s |-> chars]
ObjElement(attrs) == [isstr |-> FALSE, attrs |-> attrs]

DigitChar(d) == CASE d = 0 -> "0" [] d = 1 -> "1" [] d = 2 -> "2" [] d = 3 -> "3"
                  [] d = 4 -> "4" [] d = 5 -> "5" [] d = 6 -> "6" [] d = 7 -> "7"
                  [] d = 8 -> "8" [] d = 9 -> "9"

RECURSIVE IntStr(_)
\* str(n) for n >= 0, as in f"{counter + 1}"
IntStr(n) == IF n < 10 THEN <<DigitChar(n)>> ELSE IntStr(n \div 10) \o <<DigitChar(n % 10)>>

RECURSIVE CollectElements_SkipNonString(_, _, _)
\* The loop leaving out a non-string element it has no attribute for.
CollectElements_SkipNonString(array, attribute, elements) ==
    IF array = <<>> THEN Ok(elements)
    ELSE LET element == array[1]
         IN IF element.isstr
            THEN CollectElements_SkipNonString(Tail(array), attribute,
                                               Append(elements, element.s))
            ELSE IF attribute # None /\ attribute.val \in DOMAIN element.attrs
            THEN CollectElements_SkipNonString(Tail(array), attribute,
                                               Append(elements, element.attrs[attribute.val]))
            ELSE CollectElements_SkipNonString(Tail(array), attribute, elements)

RECURSIVE CollectElements(_, _, _)
\* The loop of lines 87-96: the list of strings, or the ValueError of line 96.
CollectElements(array, attribute, elements) ==
    IF array = <<>> THEN Ok(elements)
    ELSE LET element == array[1]
         IN IF element.isstr
            THEN CollectElements(Tail(array), attribute, Append(elements, element.s))
            ELSE IF attribute # None
            THEN IF attribute.val \in DOMAIN element.attrs
                 THEN CollectElements(Tail(array), attribute,
                                      Append(elements, element.attrs[attribute.val]))
                 ELSE Err("AttributeError")
            ELSE Err("ValueError")

\* The numbering starting at 0.
NumberedToken_ZeroBased(counter, element) == IntStr(counter) \o <<".", " ">> \o element

\* f"{counter + 1}. {element}" of line 98
NumberedToken(counter, element) == IntStr(counter + 1) \o <<".", " ">> \o element

\* enumerate_array_elements, lines 66-98
enumerate_array_elements(array, attribute) ==
    LET collected == CollectElements(array, attribute, <<>>)
    IN IF ~collected.ok THEN collected
       ELSE Ok(Join([i \in 1..Len(collected.val) |->
                        NumberedToken(i - 1, collected.val[i])], <<" ">>))

MaxArray == 3        \* a listed array has at most this many elements

ArrayElements ==
    {StrElement(<<"a">>), StrElement(<<"b">>), StrElement(<<"c">>),
     ObjElement([name |-> <<"o">>])}

InitEnumerate ==
    /\ WalkIdle
    /\ files = [p \in Paths |-> Absent]
    /\ random_state = Seed
    /\ \E array \in SeqsUpTo(ArrayElements, MaxArray), attribute \in {None, Some("name")} :
           call = [fn |-> "enumerate_array_elements", array |-> array,
                   attribute |-> attribute]
    /\ returned = NotReturned

\* enumerate_array_elements runs.
Enumerate ==
    /\ call.fn = "enumerate_array_elements"
    /\ returned = NotReturned
    /\ returned' = enumerate_array_elements(call.array, call.attribute)
    /\ UNCHANGED <<call, random_state, walk_vars, files>>

SpecEnumerate == InitEnumerate /\ [][Enumerate]_vars

\* The numerals of the positions of a listing.
C10_Numeral(i) ==
    CASE i = 1 -> <<"1">> [] i = 2 -> <<"2">> [] i = 3 -> <<"3">> [] i = 4 -> <<"4">>
      [] i = 5 -> <<"5">> [] i = 6 -> <<"6">> [] i = 7 -> <<"7">> [] i = 8 -> <<"8">>
      [] i = 9 -> <<"9">> [] i = 10 -> <<"1", "0">> [] i = 11 -> <<"1", "1">>

RECURSIVE C10_Listing(_)
\* The listing of a list of strings, built from its last token backwards.
C10_Listing(items) ==
    IF items = <<>> THEN <<>>
    ELSE LET n == Len(items)
             front == SubSeq(items, 1, n - 1)
         IN (IF front = <<>> THEN <<>> ELSE C10_Listing(front) \o <<" ">>)
            \o C10_Numeral(n) \o <<".">> \o <<" ">> \o items[n].s

\* C10: a list of n strings is rendered as the tokens "<i>. <item>", i = 1..n, in
\* input order, separated by single spaces; ["a","b","c"] gives "1. a 2. b 3. c" and
\* the empty list gives the empty string.
C10_ListingFormat ==
    (/\ call.fn = "enumerate_array_elements"
     /\ returned # NotReturned
     /\ \A i \in 1..Len(call.array) : call.array[i].isstr) =>
        /\ returned = Ok(C10_Listing(call.array))
        /\ call.array = <<>> => returned = Ok(<<>>)
        /\ call.array = <<StrElement(<<"a">>), StrElement(<<"b">>), StrElement(<<"c">>)>> =>
               returned = Ok(<<"1", ".", " ", "a", " ", "2", ".", " ", "b", " ",
                               "3", ".", " ", "c">>)

\* The list ["a", "b", "c"] was rendered.
C10_Witness ==
    /\ call.fn = "enumerate_array_elements"
    /\ call.array = <<StrElement(<<"a">>), StrElement(<<"b">>), StrElement(<<"c">>)>>
    /\ returned.ok
    /\ Len(returned.val) = 14

\* C11: whenever the list holds an element that is not a string and no attribute
\* name is given, enumerate_array_elements raises ValueError, wherever the element
\* sits in the list, and returns no listing, partial or whole.
C11_NonStringRaises ==
    (/\ call.fn = "enumerate_array_elements"
     /\ returned # NotReturned
     /\ call.attribute = None
     /\ \E i \in 1..Len(call.array) : ~call.array[i].isstr)
    => returned = Err("ValueError")

\* A list whose only non-string element is its last, after two strings, was
\* rendered without an attribute name and raised.
C11_Witness ==
    /\ call.fn = "enumerate_array_elements"
    /\ call.attribute = None
    /\ Len(call.array) = 3
    /\ call.array[1].isstr /\ call.array[2].isstr /\ ~call.array[3].isstr
    /\ returned = Err("ValueError")

(***************************************************************************)
(* orchestrate_generation.py: store_json_dataset and load_json_dataset,    *)
(* with the JSONDocument / JSONDataset schema of utils_generation.py.      *)
(* A file holds a JSON value: a string literal (the escaped characters     *)
(* between its quotes), a list, or an object from keys to values.          *)
(***************************************************************************)
JStr(literal) == [t |-> "str", v |-> literal]
JList(items) == [t |-> "list", v |-> items]
JDict(members) == [t |-> "dict", v |-> members]

QUOTE == "\""
BACKSLASH == "\\"
NEWLINE == "newline"
EACUTE == "e-acute"

\* json.dump escaping one character without escaping the backslash.
EscapeChar_BackslashRaw(c) ==
    CASE c = QUOTE -> <<BACKSLASH, QUOTE>>
      [] c = NEWLINE -> <<BACKSLASH, "n">>
      [] c = EACUTE -> <<BACKSLASH, "u", "0", "0", "e", "9">>
      [] OTHER -> <<c>>

\* json.dump (ensure_ascii) escaping one character of a string.
EscapeChar(c) ==
    CASE c = QUOTE -> <<BACKSLASH, QUOTE>>
      [] c = BACKSLASH -> <<BACKSLASH, BACKSLASH>>
      [] c = NEWLINE -> <<BACKSLASH, "n">>
      [] c = EACUTE -> <<BACKSLASH, "u", "0", "0", "e", "9">>
      [] OTHER -> <<c>>

RECURSIVE Escape(_)
Escape(chars) == IF chars = <<>> THEN <<>> ELSE EscapeChar(chars[1]) \o Escape(Tail(chars))

RECURSIVE Unescape(_)
\* json.load decoding a string literal: the characters, or "JSONDecodeError".
Unescape(lit) ==
    IF lit = <<>> THEN Ok(<<>>)
    ELSE IF lit[1] = QUOTE \/ lit[1] = NEWLINE \/ lit[1] = EACUTE
    THEN Err("JSONDecodeError")
    ELSE IF lit[1] # BACKSLASH
    THEN LET rest == Unescape(Tail(lit))
         IN IF rest.ok THEN Ok(<<lit[1]>> \o rest.val) ELSE rest
    ELSE IF Len(lit) < 2 THEN Err("JSONDecodeError")
    ELSE LET one == CASE lit[2] = QUOTE -> Ok([c |-> QUOTE, n |-> 2])
                      [] lit[2] = BACKSLASH -> Ok([c |-> BACKSLASH, n |-> 2])
                      [] lit[2] = "n" -> Ok([c |-> NEWLINE, n |-> 2])
                      [] lit[2] = "u" ->
                            IF Len(lit) >= 6 /\ SubSeq(lit, 3, 6) = <<"0", "0", "e", "9">>
                            THEN Ok([c |-> EACUTE, n |-> 6])
                            ELSE Err("JSONDecodeError")
                      [] OTHER -> Err("JSONDecodeError")
         IN IF ~one.ok THEN one
            ELSE LET rest == Unescape(SubSeq(lit, one.val.n + 1, Len(lit)))
                 IN IF rest.ok THEN Ok(<<one.val.c>> \o rest.val) ELSE rest

\* The value of a SplitName member, as json.dump writes a str-valued Enum.
SplitValue(member) ==
    CASE member = "train" -> <<"t", "r", "a", "i", "n">>
      [] member = "validation" -> <<"v", "a", "l", "i", "d", "a", "t", "i", "o", "n">>
      [] member = "test" -> <<"t", "e", "s", "t">>

\* json.dump(json_dataset.model_dump(), file_object, indent=4): the JSON value written.
json_dump(json_dataset) ==
    JDict([retrieval_documents |->
               JList([i \in 1..Len(json_dataset.retrieval_documents) |->
                         JStr(Escape(json_dataset.retrieval_documents[i]))]),
           tuning_documents |->
               JList([i \in 1..Len(json_dataset.tuning_documents) |->
                         LET document == json_dataset.tuning_documents[i]
                         IN JDict([context |-> JStr(Escape(document.context)),
                                   question |-> JStr(Escape(document.question)),
                                   answer |-> JStr(Escape(document.answer)),
                                   split |-> JStr(Escape(SplitValue(document.split)))])])])

\* A str field of a model read from a JSON value: required, and a string.
StrField(object, key) ==
    IF key \notin DOMAIN object.v THEN Err("ValidationError")
    ELSE IF object.v[key].t # "str" THEN Err("ValidationError")
    ELSE Unescape(object.v[key].v)

\* The split field filled with "train" when the document has none.
SplitField_DefaultTrain(object) ==
    IF "split" \notin DOMAIN object.v THEN Ok("train")
    ELSE LET value == StrField(object, "split")
         IN IF ~value.ok THEN value
            ELSE IF \E m \in SplitName : SplitValue(m) = value.val
            THEN Ok(CHOOSE m \in SplitName : SplitValue(m) = value.val)
            ELSE Err("ValidationError")

\* split: SplitName, line 476.
SplitField(object) ==
    LET value == StrField(object, "split")
    IN IF ~value.ok THEN value
       ELSE IF \E m \in SplitName : SplitValue(m) = value.val
       THEN Ok(CHOOSE m \in SplitName : SplitValue(m) = value.val)
       ELSE Err("ValidationError")

\* JSONDocument.model_validate, lines 458-476.
JSONDocument(object) ==
    IF object.t # "dict" THEN Err("ValidationError")
    ELSE LET context == StrField(object, "context")
             question == StrField(object, "question")
             answer == StrField(object, "answer")
             split == SplitField(object)
         IN IF ~context.ok THEN context
            ELSE IF ~question.ok THEN question
            ELSE IF ~answer.ok THEN answer
            ELSE IF ~split.ok THEN split
            ELSE Ok([context |-> context.val, question |-> question.val,
                     answer |-> answer.val, split |-> split.val])

\* JSONDataset.model_validate, lines 479-491.
JSONDataset(object) ==
    IF object.t # "dict" THEN Err("ValidationError")
    ELSE IF "retrieval_documents" \notin DOMAIN object.v
            \/ "tuning_documents" \notin DOMAIN object.v
    THEN Err("ValidationError")
    ELSE LET rd == object.v["retrieval_documents"]
             td == object.v["tuning_documents"]
         IN IF rd.t # "list" \/ td.t # "list" THEN Err("ValidationError")
            ELSE LET strs == [i \in 1..Len(rd.v) |->
                                 IF rd.v[i].t = "str" THEN Unescape(rd.v[i].v)
                                 ELSE Err("ValidationError")]
                     docs == [i \in 1..Len(td.v) |-> JSONDocument(td.v[i])]
                 IN IF \E i \in 1..Len(strs) : ~strs[i].ok
                    THEN strs[CHOOSE i \in 1..Len(strs) : ~strs[i].ok]
                    ELSE IF \E i \in 1..Len(docs) : ~docs[i].ok
                    THEN docs[CHOOSE i \in 1..Len(docs) : ~docs[i].ok]
                    ELSE Ok([retrieval_documents |-> [i \in 1..Len(strs) |-> strs[i].val],
                             tuning_documents |-> [i \in 1..Len(docs) |-> docs[i].val]])

\* load_json_dataset, lines 128-145
load_json_dataset(fs, file_path) ==
    IF fs[file_path] = Absent THEN Err("FileNotFoundError")
    ELSE JSONDataset(fs[file_path].content)

\* store_json_dataset, lines 113-125: the file system it leaves.
store_json_dataset(fs, json_dataset, file_path) ==
    [fs EXCEPT ![file_path] = [exists |-> TRUE, content |-> json_dump(json_dataset)]]

MaxDocs == 1

\* Field texts: plain characters, characters json.dump escapes, a non-ASCII one.
Texts == {<<"a", QUOTE, BACKSLASH, "n">>, <<EACUTE, NEWLINE, "u">>}

JSONDatasets ==
    [retrieval_documents : SeqsUpTo(Texts, MaxDocs),
     tuning_documents : SeqsUpTo([context : Texts, question : Texts, answer : Texts,
                                  split : SplitName], MaxDocs)]

\* A function restricted to a subset of its keys.
Restrict(f, keys) == [k \in keys |-> f[k]]

\* Files written by hand: a dataset file with any keys removed from the
\* object or from a document, or with a split that names no SplitName.
EditedContents ==
    LET doc == [context |-> JStr(<<"c">>), question |-> JStr(<<"q">>),
                answer |-> JStr(<<"a">>), split |-> JStr(<<>>)]
        splits == {SplitValue(m) : m \in SplitName} \cup {<<"d", "e", "v">>}
        docs == {Restrict([doc EXCEPT !.split = JStr(sv)], keys) :
                     sv \in splits, keys \in SUBSET DOMAIN doc}
        lists == {<<>>} \cup {<<JDict(d)>> : d \in docs}
        whole == {[retrieval_documents |-> JList(<<JStr(<<"r">>)>>),
                   tuning_documents |-> JList(l)] : l \in lists}
    IN {JDict(Restrict(w, keys)) : w \in whole, keys \in SUBSET {"retrieval_documents", "tuning_documents"}}

InitJSON ==
    /\ WalkIdle
    /\ random_state = Seed
    /\ returned = NotReturned
    /\ \E file_path \in Paths :
         \/ \E json_dataset \in JSONDatasets :
              /\ call = [fn |-> "store", json_dataset |-> json_dataset, file_path |-> file_path]
              /\ files = [p \in Paths |-> Absent]
         \/ \E content \in EditedContents :
              /\ call = [fn |-> "load", file_path |-> file_path]
              /\ files = [p \in Paths |-> IF p = file_path
                                          THEN [exists |-> TRUE, content |-> content]
                                          ELSE Absent]

\* store_json_dataset(json_dataset, file_path) runs; it returns nothing.
Store ==
    /\ call.fn = "store"
    /\ files' = store_json_dataset(files, call.json_dataset, call.file_path)
    /\ returned' = NotReturned
    /\ UNCHANGED <<call, random_state, walk_vars>>

\* load_json_dataset(file_path) runs on either path.
Load ==
    /\ \E file_path \in Paths :
         returned' = [path |-> file_path, result |-> load_json_dataset(files, file_path)]
    /\ UNCHANGED <<call, files, random_state, walk_vars>>

SpecJSON == InitJSON /\ [][Store \/ Load]_vars

Incomplete(content) ==
    \/ {"retrieval_documents", "tuning_documents"} \ DOMAIN content.v # {}
    \/ \E i \in 1..Len(content.v["tuning_documents"].v) :
         LET doc == content.v["tuning_documents"].v[i].v
         IN \/ {"context", "question", "answer", "split"} \ DOMAIN doc # {}
            \/ doc["split"].v \notin {SplitValue(m) : m \in SplitName}

\* C6: loading a file that lacks a required field of the dataset or of one
\* of its documents, or whose split is not train, validation or test,
\* fails with a validation error; a load that succeeds returns exactly the
\* fields the file holds, none filled in.
C6_LoadValidates ==
    (call.fn = "load" /\ returned # NotReturned /\ returned.path = call.file_path)
    => LET content == files[call.file_path].content
       IN /\ Incomplete(content) => returned.result = Err("ValidationError")
          /\ returned.result.ok =>
               /\ ~Incomplete(content)
               /\ Len(returned.result.val.tuning_documents) = Len(content.v["tuning_documents"].v)
               /\ \A i \in 1..Len(returned.result.val.tuning_documents) :
                    SplitValue(returned.result.val.tuning_documents[i].split)
                       = content.v["tuning_documents"].v[i].v["split"].v

\* A file whose only document has every text field but no split was loaded
\* and rejected.
C6_Witness ==
    /\ call.fn = "load"
    /\ returned # NotReturned
    /\ returned.path = call.file_path
    /\ returned.result = Err("ValidationError")
    /\ LET content == files[call.file_path].content
       IN /\ DOMAIN content.v = {"retrieval_documents", "tuning_documents"}
          /\ Len(content.v["tuning_documents"].v) = 1
          /\ DOMAIN content.v["tuning_documents"].v[1].v = {"context", "question", "answer"}

(***************************************************************************)
(* step_1_generation.py: get_all_module_contents and                       *)
(* get_all_member_details.  A member object is described by what the       *)
(* inspections of lines 303-371 find in it.                                *)
(***************************************************************************)
MaxMembers == 2

\* The objects a signature holds as a default or an annotation, each with its str():
\* the marker inspect._empty of a missing default or annotation, the object None,
\* and any other object or string.
inspect_empty == [kind |-> "empty", str |-> <<"<class 'inspect._empty'>">>]
PyNone == [kind |-> "None", str |-> <<"None">>]
PyValue(text) == [kind |-> "value", str |-> text]

\* left or right: right when left is None or an empty string
PyOr(left, right) ==
    IF left = PyNone \/ left = PyValue(<<>>) THEN right ELSE left

\* The objects a module's namespace may hold, in the order inspect.getmembers lists
\* them (by name): an enum, a class, a function, a callable without a signature, a
\* function imported from another module, an instance.  getmodule is "module" when
\* inspect.getmodule(member) is the module itself.
\* None of them has parameters, annotations or docstring sections.
MemberObjects ==
    <<[member_name |-> <<"E">>, getmodule |-> "module",
       is_enum |-> TRUE, is_class |-> TRUE, is_callable |-> TRUE,
       doc |-> <<"d">>, signature |-> "ok",
       enum_members |-> <<[enum_member_name |-> <<"A">>, enum_member_value |-> <<"1">>]>>,
       parameters |-> <<>>, return_annotation |-> inspect_empty,
       doc_parameters |-> <<>>, doc_returns |-> <<>>, doc_raises |-> <<>>],
      [member_name |-> <<"K">>, getmodule |-> "module",
       is_enum |-> FALSE, is_class |-> TRUE, is_callable |-> TRUE,
       doc |-> <<>>, signature |-> "ok", enum_members |-> <<>>,
       parameters |-> <<>>, return_annotation |-> inspect_empty,
       doc_parameters |-> <<>>, doc_returns |-> <<>>, doc_raises |-> <<>>],
      [member_name |-> <<"f">>, getmodule |-> "module",
       is_enum |-> FALSE, is_class |-> FALSE, is_callable |-> TRUE,
       doc |-> <<"d">>, signature |-> "ok", enum_members |-> <<>>,
       parameters |-> <<>>, return_annotation |-> inspect_empty,
       doc_parameters |-> <<>>, doc_returns |-> <<>>, doc_raises |-> <<>>],
      [member_name |-> <<"g">>, getmodule |-> "module",
       is_enum |-> FALSE, is_class |-> FALSE, is_callable |-> TRUE,
       doc |-> <<>>, signature |-> "ValueError", enum_members |-> <<>>,
       parameters |-> <<>>, return_annotation |-> inspect_empty,
       doc_parameters |-> <<>>, doc_returns |-> <<>>, doc_raises |-> <<>>],
      [member_name |-> <<"h">>, getmodule |-> "other",
       is_enum |-> FALSE, is_class |-> FALSE, is_callable |-> TRUE,
       doc |-> <<"d">>, signature |-> "ok", enum_members |-> <<>>,
       parameters |-> <<>>, return_annotation |-> inspect_empty,
       doc_parameters |-> <<>>, doc_returns |-> <<>>, doc_raises |-> <<>>],
      [member_name |-> <<"x">>, getmodule |-> "module",
       is_enum |-> FALSE, is_class |-> FALSE, is_callable |-> FALSE,
       doc |-> <<>>, signature |-> "ok", enum_members |-> <<>>,
       parameters |-> <<>>, return_annotation |-> inspect_empty,
       doc_parameters |-> <<>>, doc_returns |-> <<>>, doc_raises |-> <<>>]>>

RECURSIVE Pick(_, _, _)
\* The elements of a sequence at the indices of a set, in order.
Pick(seq, indices, i) ==
    IF i > Len(seq) THEN <<>>
    ELSE (IF i \in indices THEN <<seq[i]>> ELSE <<>>) \o Pick(seq, indices, i + 1)

\* The import states a build runs in: the root is 'a', with packages 'b' and modules
\* 'm' below it; every module that imports defines the same members; some modules
\* raise ImportError when imported.
BuildWorlds ==
    UNION {{[root |-> w.root, root_status |-> w.root_status, nodes |-> w.nodes,
             status |-> w.status, module_members |-> Pick(MemberObjects, ix, 1),
             broken_modules |-> br] :
               ix \in {x \in SUBSET (1..Len(MemberObjects)) : Cardinality(x) <= MaxMembers},
               br \in SUBSET (w.nodes \cap {<<"m">>})} :
           w \in {v \in OkWorlds(<<"a">>) \cup FailWorlds(<<"a">>) :
                     \A p \in v.nodes : \A i \in 1..Len(p) : p[i] \in {"b", "m"}}}

\* The module described whether or not its import raises.
get_all_module_contents_NeverRaises(w, module_name) ==
    LET module_hierarchy == Split(module_name, ".")
        node == CHOOSE p \in ModsOf(w.nodes) : Dotted(w.root \o p) = module_name
        module_contents ==
            SelectSeq(w.module_members, LAMBDA member : member.getmodule = "module")
    IN IF FALSE THEN Err("ImportError")
       ELSE Ok([module_name |-> Last(module_hierarchy),
                module_qualified_name |-> module_name,
                module_hierarchy |-> module_hierarchy,
                package_name |-> Join(SubSeq(module_hierarchy, 1, Len(module_hierarchy) - 1), DOT),
                module_members |->
                    [i \in 1..Len(module_contents) |->
                        [member_name |-> module_contents[i].member_name,
                         member_object |-> module_contents[i]]],
                module_summary |-> IF Len(node) = 1 THEN Some(<<"d", "o", "c">>) ELSE None,
                module_all_exports |-> IF Len(node) = 1 THEN None ELSE Some(<<<<"f">>>>)])

\* get_all_module_contents, lines 146-179
get_all_module_contents(w, module_name) ==
    LET module_hierarchy == Split(module_name, ".")
        node == CHOOSE p \in ModsOf(w.nodes) : Dotted(w.root \o p) = module_name
        module_contents ==
            SelectSeq(w.module_members, LAMBDA member : member.getmodule = "module")
    IN IF node \in w.broken_modules THEN Err("ImportError")
       ELSE Ok([module_name |-> Last(module_hierarchy),
                module_qualified_name |-> module_name,
                module_hierarchy |-> module_hierarchy,
                package_name |-> Join(SubSeq(module_hierarchy, 1, Len(module_hierarchy) - 1), DOT),
                module_members |->
                    [i \in 1..Len(module_contents) |->
                        [member_name |-> module_contents[i].member_name,
                         member_object |-> module_contents[i]]],
                module_summary |-> IF Len(node) = 1 THEN Some(<<"d", "o", "c">>) ELSE None,
                module_all_exports |-> IF Len(node) = 1 THEN None ELSE Some(<<<<"f">>>>)])

\* The annotation a parameter's details take with the docstring's type put first.
ParameterAnnotation_DocstringOnly(documented, signature_annotation) ==
    IF documented = <<>> THEN PyNone ELSE PyValue(Last(documented).type)

\* Lines 220-223: the docstring's type of the parameter, or the signature's
\* annotation when the docstring has no entry for it or an entry without a type.
ParameterAnnotation(documented, signature_annotation) ==
    PyOr(IF documented = <<>> THEN PyNone ELSE PyValue(Last(documented).type),
         signature_annotation)

\* get_all_parameters_details, lines 182-235: one ParameterDetails for each
\* parameter of the signature, in order; documented is what the docstring's
\* Parameters section holds under the parameter's name.
get_all_parameters_details(signature_parameters, docstring_parameters) ==
    [i \in 1..Len(signature_parameters) |->
        LET parameter == signature_parameters[i]
            documented == SelectSeq(docstring_parameters,
                                    LAMBDA d : d.name = parameter.name)
        IN [parameter_name |-> parameter.name,
            parameter_default |-> parameter.default,
            parameter_annotation |-> ParameterAnnotation(documented, parameter.annotation),
            parameter_kind |-> parameter.kind,
            parameter_summary |-> IF documented = <<>> THEN None
                                  ELSE Some(Last(documented).desc),
            parameter_details |-> Quoted(parameter.name) \o <<", of type ">>
                                  \o Quoted(parameter.kind)]]

\* get_all_returns_details, lines 238-270: the first entry of the docstring's
\* Returns section put before the signature's return annotation.
get_all_returns_details(return_annotation, docstring_returns) ==
    IF docstring_returns = <<>>
    THEN [returns_annotation |-> return_annotation, returns_summary |-> <<>>]
    ELSE [returns_annotation |-> PyOr(PyValue(docstring_returns[1].type), return_annotation),
          returns_summary |-> docstring_returns[1].desc]

\* RaiseDetails, utils_generation.py: an entry of the Raises section with its
\* computed field raises_details.
RaiseDetails(raises) ==
    [raises_type |-> raises.type, raises_summary |-> raises.desc,
     raises_details |-> Quoted(raises.type) \o <<" (">> \o Quoted(raises.desc) \o <<")">>]

\* The dispatch with the class test put before the enum test.
MemberKind_ClassFirst(member_object) ==
    IF member_object.is_class THEN "class"
    ELSE IF member_object.is_enum THEN "enum"
    ELSE IF member_object.is_callable THEN "function"
    ELSE "object"

\* Lines 307, 317, 347: isinstance(member_object, enum.EnumType), then
\* inspect.isclass, then callable; the first test that holds names the branch.
MemberKind(member_object) ==
    IF member_object.is_enum THEN "enum"
    ELSE IF member_object.is_class THEN "class"
    ELSE IF member_object.is_callable THEN "function"
    ELSE "object"

\* get_all_member_details, lines 273-373
get_all_member_details(module_name, member_name, member_object) ==
    LET member_hierarchy == Split(module_name, ".") \o <<member_name>>
        details(member_type_details) ==
            Ok([member_name |-> member_name,
                member_qualified_name |-> Join(member_hierarchy, DOT),
                member_hierarchy |-> member_hierarchy,
                member_module |-> member_hierarchy[Len(member_hierarchy) - 1],
                member_docstring |-> member_object.doc,
                member_type_details |-> member_type_details])
        member_kind == MemberKind(member_object)
    IN IF member_kind = "enum"
       THEN details(Some([member_type |-> "enum",
                          enum_members |->
                              [i \in 1..Len(member_object.enum_members) |->
                                  LET m == member_object.enum_members[i]
                                  IN [enum_member_name |-> m.enum_member_name,
                                      enum_member_value |-> m.enum_member_value,
                                      enum_member |->
                                          m.enum_member_name \o <<" (corresponding to ">>
                                          \o Quoted(m.enum_member_value) \o <<")">>]]]))
       ELSE IF member_kind = "class"
       THEN IF member_object.signature # "ok" THEN Err(member_object.signature)
            ELSE details(Some([member_type |-> "class",
                               class_parameters |->
                                   get_all_parameters_details(member_object.parameters,
                                                              member_object.doc_parameters),
                               class_methods |-> <<>>, class_attributes |-> <<>>,
                               class_summary |-> member_object.doc, class_notes |-> <<>>]))
       ELSE IF member_kind = "function"
       THEN IF member_object.signature # "ok" THEN Err(member_object.signature)
            ELSE details(Some([member_type |-> "function",
                               function_parameters |->
                                   get_all_parameters_details(member_object.parameters,
                                                              member_object.doc_parameters),
                               function_returns |->
                                   get_all_returns_details(member_object.return_annotation,
                                                           member_object.doc_returns),
                               function_summary |-> member_object.doc,
                               function_raises |->
                                   [i \in 1..Len(member_object.doc_raises) |->
                                       RaiseDetails(member_object.doc_raises[i])],
                               function_warns |-> <<>>,
                               function_notes |-> <<>>, function_references |-> <<>>,
                               function_examples |-> <<>>]))
       ELSE details(None)

(***************************************************************************)
(* step_2_generation.py: the dataset generators.  A generator renders a    *)
(* list of facts; each fact adds one retrieval chunk and hands one batch   *)
(* of question/answer pairs to allocate_tuning_pairs.  A text is the       *)
(* sequence of its pieces; the wording of a question or answer is cut down *)
(* to its number and the chunk it is about.                                *)
(***************************************************************************)
\* A chunk with the batch of k pairs written about it.
Fact(chunk, k) ==
    [chunk |-> chunk,
     tuning_pairs |-> [i \in 1..k |-> <<<<"Q", DigitChar(i), ": ">> \o chunk,
                                        <<"A", DigitChar(i), ": ">> \o chunk>>]]

RECURSIVE RenderFacts(_, _)
\* The calls tuning_pairs.extend(allocate_tuning_pairs(pairs)), one per fact in
\* order, from generator state st: the triples collected, the state left, and the
\* batch each call returned.
RenderFacts(facts, st) ==
    IF facts = <<>> THEN [tuning_pairs |-> <<>>, state |-> st, batches |-> <<>>]
    ELSE LET first == allocate_tuning_pairs(facts[1].tuning_pairs,
                                            DEFAULT_SPLIT_PROPORTIONS, st)
             rest == RenderFacts(Tail(facts), first.state)
         IN [tuning_pairs |-> first.result.val \o rest.tuning_pairs, state |-> rest.state,
             batches |-> <<first.result.val>> \o rest.batches]

\* The chunks of a list of facts.
Chunks(facts) == [i \in 1..Len(facts) |-> facts[i].chunk]

\* Dataset(**kwargs), utils_generation.py lines 443-455: retrieval_chunks and
\* tuning_documents are required and have no default; other keywords are ignored.
Dataset(kwargs) ==
    IF {"retrieval_chunks", "tuning_documents"} \subseteq DOMAIN kwargs
    THEN Ok([retrieval_chunks |-> kwargs.retrieval_chunks,
             tuning_documents |-> kwargs.tuning_documents])
    ELSE Err("ValidationError")

\* The end of a generator: the batches of the facts are allocated in order from
\* generator state st, and Dataset(retrieval_chunks=..., tuning_pairs=...) is
\* constructed from the chunks (the first two of them when truncate is set).
\* The Dataset or the error raised, all the chunks, and the generator state left.
Finish(chunks, truncate, facts, st) ==
    LET rendered == RenderFacts(facts, st)
    IN [result |-> Dataset([retrieval_chunks |-> IF truncate THEN SubSeq(chunks, 1, 2)
                                                 ELSE chunks,
                            tuning_pairs |-> rendered.tuning_pairs]),
        chunks |-> chunks,
        tuning_pairs |-> rendered.tuning_pairs,
        batches |-> rendered.batches,
        state |-> rendered.state]

\* The facts of a generator whose chunks are appended after the opening chunks.
Appended(opening, truncate, facts, st) ==
    Finish(opening \o Chunks(facts), truncate, facts, st)

\* not value, for an optional string or list
Falsy(optional) == optional = None \/ optional.val = <<>>

\* enumerate_array_elements over a list of strings
Enumerated(strings) ==
    enumerate_array_elements([i \in 1..Len(strings) |-> StrElement(strings[i])], None).val

\* The facts generate_package_dataset renders, lines 122-614, in order.
PackageFacts(contents) ==
    LET name == Quoted(contents.package_name)
        package == name \o <<" package">>
        parent == contents.parent_package_name
        subs == contents.children_sub_packages_names
        modules == contents.children_modules_names
    IN      (IF parent = None
             THEN <<Fact(name \o <<" is the root package.">>, 6),
                    Fact(name \o <<" has no parent package.">>, 6)>>
             ELSE <<Fact(name \o <<" is part of parent package ">> \o Quoted(parent.val)
                         \o <<".">>, 6),
                    Fact(<<"Full name of ">> \o name \o <<" sub-package is ">>
                         \o Quoted(contents.package_qualified_name) \o <<".">>, 6),
                    Fact(<<"Hierarchy of ">> \o package \o <<" is as follows: ">>
                         \o Enumerated(contents.package_hierarchy) \o <<".">>, 6)>>)
            \o (IF subs = <<>>
                THEN <<Fact(package \o <<" does not have any further sub-packages.">>, 6)>>
                ELSE <<Fact(package \o <<" has ">> \o IntStr(Len(subs))
                            \o <<" many sub-packages.">>, 6),
                       Fact(<<"Sub-packages of ">> \o package \o <<" are as follows: ">>
                            \o Enumerated(subs) \o <<".">>, 6)>>)
            \o (IF modules = <<>>
                THEN <<Fact(package \o <<" does not have any further modules.">>, 6)>>
                ELSE <<Fact(package \o <<" has ">> \o IntStr(Len(modules))
                            \o <<" many modules.">>, 6),
                       Fact(<<"Modules of ">> \o package \o <<" are as follows: ">>
                            \o Enumerated(modules) \o <<".">>, 6)>>)
            \o (IF Falsy(contents.package_summary)
                THEN <<Fact(<<"Unfortunately, ">> \o package
                            \o <<" currently does not have any documentation.">>, 6)>>
                ELSE <<Fact(<<"The following is the documentation of ">> \o package
                            \o <<": ">> \o Quoted(contents.package_summary.val) \o <<".">>, 6)>>)
            \o (IF Falsy(contents.package_all_exports)
                THEN <<Fact(package
                            \o <<" does not export anything publicly using __all__ variable.">>,
                            6)>>
                ELSE <<Fact(package \o <<" has ">>
                            \o IntStr(Len(contents.package_all_exports.val))
                            \o <<" many public exports.">>, 6),
                       Fact(package \o <<" exports following public members using __all__: ">>
                            \o Enumerated(contents.package_all_exports.val) \o <<".">>, 5)>>)

\* generate_package_dataset, lines 101-620: the Dataset or the error raised, and
\* the generator state left.
generate_package_dataset(contents, st) ==
    Appended(<<Quoted(contents.package_name) \o <<" is a Python package.">>>>, FALSE,
             PackageFacts(contents), st)

\* generate_module_dataset, lines 623-948
generate_module_dataset(contents, st) ==
    LET module == Quoted(contents.module_name) \o <<" module">>
        member_names ==
            enumerate_array_elements(
                [i \in 1..Len(contents.module_members) |->
                    ObjElement([member_name |-> contents.module_members[i].member_name])],
                Some("member_name")).val
        facts ==
            <<Fact(module \o <<" is part of parent package ">> \o Quoted(contents.package_name)
                   \o <<".">>, 6),
              Fact(<<"Full name of ">> \o module \o <<" is ">>
                   \o Quoted(contents.module_qualified_name) \o <<".">>, 6),
              Fact(<<"Hierarchy of ">> \o module \o <<" is as follows: ">>
                   \o Enumerated(contents.module_hierarchy) \o <<".">>, 6),
              Fact(module \o <<" has ">> \o IntStr(Len(contents.module_members))
                   \o <<" many members.">>, 6),
              Fact(<<"Members of ">> \o module \o <<" are as follows: ">> \o member_names
                   \o <<".">>, 6)>>
            \o (IF Falsy(contents.module_summary)
                THEN <<Fact(<<"Unfortunately, ">> \o module
                            \o <<" currently does not have any documentation.">>, 5)>>
                ELSE <<Fact(<<"The following is the documentation of ">> \o module \o <<": ">>
                            \o contents.module_summary.val \o <<".">>, 6)>>)
            \o (IF Falsy(contents.module_all_exports)
                THEN <<Fact(module
                            \o <<" does not export anything publicly using __all__ variable.">>,
                            6)>>
                ELSE <<Fact(module \o <<" has ">>
                            \o IntStr(Len(contents.module_all_exports.val))
                            \o <<" many public exports.">>, 6),
                       Fact(module \o <<" exports following members using __all__: ">>
                            \o Enumerated(contents.module_all_exports.val) \o <<".">>, 5)>>)
    IN Appended(<<Quoted(contents.module_name) \o <<" is a Python module.">>>>, FALSE,
                facts, st)

\* enumerate_array_elements over a list of objects, by a common attribute
Listed(objects, attribute) ==
    enumerate_array_elements([i \in 1..Len(objects) |-> ObjElement(objects[i])],
                             Some(attribute)).val

\* generate_enum_member_dataset, lines 951-1112: the Dataset or the error raised,
\* the chunks returned with it, and the generator state left.  Each fact is inserted
\* before the last chunk, the docstring sentence.
generate_enum_member_dataset(enum_member, enum_docstring, member_type_details, st) ==
    LET enum_members == member_type_details.enum_members
        facts ==
            <<Fact(enum_member \o <<" has ">> \o IntStr(Len(enum_members))
                   \o <<" many members.">>, 6),
              Fact(<<"Members of ">> \o enum_member \o <<" are as follows: ">>
                   \o Listed(enum_members, "enum_member") \o <<".">>, 5),
              Fact(<<"Names of different members of ">> \o enum_member
                   \o <<" are as follows: ">> \o Listed(enum_members, "enum_member_name")
                   \o <<".">>, 6),
              Fact(<<"Values of different members of ">> \o enum_member
                   \o <<" are as follows: ">> \o Listed(enum_members, "enum_member_value")
                   \o <<".">>, 6)>>
        inserted(fs) ==
            Finish(<<enum_member \o <<" is a Python enum.">>>> \o Chunks(fs)
                   \o <<enum_member \o <<" has following docstring: ">> \o enum_docstring
                        \o <<".">>>>, FALSE, fs, st)
    IN inserted(facts)

\* The three facts of one parameter of a class, lines 1211-1408: its default, its
\* annotation, its documentation.
ParameterFacts(parameter_details, owner) ==
    LET parameter == Quoted(parameter_details.parameter_name) \o <<" argument in ">> \o owner
    IN <<IF parameter_details.parameter_default = inspect_empty
         THEN Fact(parameter \o <<" does not have a default value.">>, 6)
         ELSE Fact(parameter_details.parameter_default.str
                   \o <<" is the default value of ">> \o parameter \o <<".">>, 6),
         IF parameter_details.parameter_annotation = inspect_empty
         THEN Fact(<<"Type hint for ">> \o parameter \o <<" is unavailable.">>, 6)
         ELSE Fact(parameter \o <<" is annotated as ">>
                   \o Quoted(parameter_details.parameter_annotation.str) \o <<" type.">>, 6),
         IF Falsy(parameter_details.parameter_summary)
         THEN Fact(parameter \o <<" lacks any documentation in the docstring.">>, 6)
         ELSE Fact(<<"As per docstring, role of ">> \o parameter \o <<" is: ">>
                   \o Quoted(parameter_details.parameter_summary.val) \o <<".">>, 6)>>

\* generate_class_member_dataset, lines 1115-1854: facts are appended; the Dataset
\* takes the first two chunks.
generate_class_member_dataset(class_member, class_docstring, member_type_details, st) ==
    LET class_parameters == member_type_details.class_parameters
        class_methods == member_type_details.class_methods
        class_attributes == member_type_details.class_attributes
        method(i) == Quoted(class_methods[i].method_name) \o <<" method of ">> \o class_member
        facts ==
            (IF class_parameters = <<>>
             THEN <<Fact(class_member \o <<" requires no arguments for instantiation.">>, 6)>>
             ELSE <<Fact(class_member \o <<" requires the following arguments for initialisation: ">>
                         \o Listed(class_parameters, "parameter_details"), 5)>>)
            \o Join([i \in 1..Len(class_parameters) |->
                        ParameterFacts(class_parameters[i], class_member)], <<>>)
            \o (IF class_methods = <<>>
                THEN <<Fact(class_member
                            \o <<" has no public (without _ as the prefix) methods.">>, 6)>>
                ELSE <<Fact(class_member \o <<" has ">> \o IntStr(Len(class_methods))
                            \o <<" many public methods.">>, 6),
                       Fact(class_member \o <<" has the following public methods: ">>
                            \o Listed(class_methods, "method_name"), 6)>>)
            \o Join([i \in 1..Len(class_methods) |->
                        <<IF class_methods[i].method_parameters = <<>>
                          THEN Fact(method(i) \o <<" takes no arguments.">>, 6)
                          ELSE Fact(method(i) \o <<" accepts following parameters: ">>
                                    \o Enumerated(class_methods[i].method_parameters), 5),
                          IF Falsy(class_methods[i].method_summary)
                          THEN Fact(<<"Unfortunately, ">> \o method(i)
                                    \o <<" is not documented.">>, 6)
                          ELSE Fact(<<"Based on docstring, ">> \o method(i)
                                    \o <<" has the purpose of ">>
                                    \o Quoted(class_methods[i].method_summary.val)
                                    \o <<".">>, 6)>>], <<>>)
            \o (IF class_attributes = <<>>
                THEN <<Fact(class_member \o <<" has no public attributes.">>, 5)>>
                ELSE <<Fact(class_member \o <<" has ">> \o IntStr(Len(class_attributes))
                            \o <<" many public attributes.">>, 6),
                       Fact(class_member \o <<" has following public attributes: ">>
                            \o Listed(class_attributes, "attribute_name"), 5)>>)
            \o (IF member_type_details.class_summary = <<>>
                THEN <<Fact(<<"Unfortunately, ">> \o class_member
                            \o <<" does not document its objective.">>, 5)>>
                ELSE <<Fact(class_member \o <<" documents its purpose as follows: ">>
                            \o Quoted(member_type_details.class_summary) \o <<".">>, 6)>>)
            \o (IF member_type_details.class_notes = <<>>
                THEN <<Fact(<<"Docstring of ">> \o class_member
                            \o <<" has contains no specific implementation details.">>, 6)>>
                ELSE <<Fact(<<"In docstring, ">> \o class_member
                            \o <<" specifies the following: ">>
                            \o Quoted(member_type_details.class_notes) \o <<".">>, 6)>>)
    IN Appended(<<class_member \o <<" is a Python class.">>,
                  class_member \o <<" has following docstring: ">> \o class_docstring
                  \o <<".">>>>, TRUE, facts, st)

\* The three facts of one parameter of a function, lines 1950-2153.
FunctionParameterFacts(parameter_details, owner) ==
    LET parameter == Quoted(parameter_details.parameter_name) \o <<" argument in ">> \o owner
    IN <<IF parameter_details.parameter_default = inspect_empty
         THEN Fact(parameter \o <<" has no default value.">>, 6)
         ELSE Fact(parameter \o <<" has the default value of ">>
                   \o parameter_details.parameter_default.str \o <<".">>, 6),
         IF parameter_details.parameter_annotation = inspect_empty
         THEN Fact(<<"Unfortunately, type hint for ">> \o parameter \o <<" is missing.">>, 6)
         ELSE Fact(parameter \o <<" has ">>
                   \o Quoted(parameter_details.parameter_annotation.str)
                   \o <<" as type annotation.">>, 6),
         IF Falsy(parameter_details.parameter_summary)
         THEN Fact(parameter \o <<" is not documented in the docstring.">>, 6)
         ELSE Fact(<<"In the docstring, ">> \o parameter \o <<" is described as ">>
                   \o Quoted(parameter_details.parameter_summary.val) \o <<".">>, 6)>>

\* One fact of generate_function_member_dataset about a part of the docstring that
\* is a string: the sentence of its absence, or the sentence quoting it.
SectionFact(text, absent, present) ==
    IF text = <<>> THEN Fact(absent, 6) ELSE Fact(present \o text, 6)

\* generate_function_member_dataset, lines 1857-2709
generate_function_member_dataset(function_member, function_docstring, member_type_details, st) ==
    LET function_parameters == member_type_details.function_parameters
        function_returns == member_type_details.function_returns
        facts ==
            <<IF function_parameters = <<>>
              THEN Fact(function_member \o <<" takes no parameters.">>, 6)
              ELSE Fact(function_member \o <<" takes the following parameters: ">>
                        \o Listed(function_parameters, "parameter_details"), 6)>>
            \o Join([i \in 1..Len(function_parameters) |->
                        FunctionParameterFacts(function_parameters[i], function_member)],
                    <<>>)
            \o <<IF function_returns.returns_annotation = inspect_empty
                 THEN Fact(function_member
                           \o <<" has no return annotation, but its return can still be non-null.">>,
                           6)
                 ELSE Fact(<<"Return of ">> \o function_member \o <<" is annotated as ">>
                           \o Quoted(function_returns.returns_annotation.str) \o <<".">>, 6),
                 SectionFact(function_returns.returns_summary,
                             function_member \o <<" does not document its return.">>,
                             <<"Based on docstring, return of ">> \o function_member
                             \o <<" is as follows: ">>),
                 IF member_type_details.function_summary = <<>>
                 THEN Fact(<<"Documentation for ">> \o function_member \o <<" is missing.">>, 5)
                 ELSE Fact(function_member \o <<" documents itself as follows: ">>
                           \o Quoted(member_type_details.function_summary) \o <<".">>, 6),
                 IF member_type_details.function_raises = <<>>
                 THEN Fact(function_member
                           \o <<" does not document any specific exceptions in the docstring.">>,
                           6)
                 ELSE Fact(<<"From docstring, ">> \o function_member
                           \o <<" can raise the following: ">>
                           \o Listed(member_type_details.function_raises, "raises_details"), 6),
                 IF member_type_details.function_warns = <<>>
                 THEN Fact(<<"Mention of any warnings is missing in docstring of ">>
                           \o function_member \o <<".">>, 6)
                 ELSE Fact(function_member \o <<" documents the following warnings: ">>
                           \o Listed(member_type_details.function_warns, "warns_details"), 6),
                 SectionFact(member_type_details.function_notes,
                             function_member \o <<" has no specific notes in the docstring.">>,
                             <<"Docstring for ">> \o function_member
                             \o <<" has following notes: ">>),
                 SectionFact(member_type_details.function_references,
                             function_member \o <<" documents no references in its docstring.">>,
                             function_member \o <<" list the following references: ">>),
                 SectionFact(member_type_details.function_examples,
                             <<"Documentation of ">> \o function_member
                             \o <<" lacks any examples.">>,
                             <<"Docstring of ">> \o function_member
                             \o <<" contains following examples: ">>)>>
    IN Appended(<<function_member \o <<" is a Python function.">>,
                  function_member \o <<" has following docstring: ">> \o function_docstring
                  \o <<".">>>>, TRUE, facts, st)

\* Lines 2927-2950, given the member's own facts as rendered and what the kind
\* generator gave: its error, or the two
\* Datasets, the first with the member's chunks followed by the kind's.
MemberAndKind(member_retrieval_chunks, rendered, kind) ==
    IF ~kind.result.ok
    THEN [result |-> kind.result, state |-> kind.state,
          batches |-> rendered.batches \o kind.batches]
    ELSE LET member_dataset ==
                 Dataset([retrieval_chunks |-> member_retrieval_chunks \o kind.chunks,
                          tuning_pairs |-> rendered.tuning_pairs])
         IN [result |-> IF member_dataset.ok
                        THEN Ok(<<member_dataset.val, kind.result.val>>)
                        ELSE member_dataset,
             state |-> kind.state,
             batches |-> rendered.batches \o kind.batches]

\* Lines 2918-2925: the one Dataset of a member without type details.
MemberAlone(member) ==
    [result |-> IF member.result.ok THEN Ok(<<member.result.val>>) ELSE member.result,
     state |-> member.state, batches |-> member.batches]

\* The dispatch with an unknown kind passed over in silence.
MemberOfKind_SilentOther(member_details, generic, st) ==
    LET member_name == Quoted(member_details.member_name)
        member_type_details == member_details.member_type_details.val
        member_type == member_type_details.member_type
        kind == Fact(member_name \o <<" is a Python ", member_type, ".">>, 6)
        after(rendered) ==
            MemberAndKind(
                Chunks(SubSeq(generic, 1, 3)) \o <<kind.chunk, generic[4].chunk>>,
                rendered,
                CASE member_type = "enum" ->
                       generate_enum_member_dataset(
                           member_name \o <<" enum">>, member_details.member_docstring,
                           member_type_details, rendered.state)
                  [] member_type = "class" ->
                       generate_class_member_dataset(
                           member_name \o <<" class">>, member_details.member_docstring,
                           member_type_details, rendered.state)
                  [] member_type = "function" ->
                       generate_function_member_dataset(
                           member_name \o <<" function">>, member_details.member_docstring,
                           member_type_details, rendered.state)
                  [] OTHER -> [result |-> Ok(<<>>), chunks |-> <<>>, batches |-> <<>>,
                               state |-> rendered.state])
    IN after(RenderFacts(Append(generic, kind), st))

\* Lines 2889-2950 for a member with type details, given the four generic facts:
\* the kind sentence is inserted before the last chunk, then the kind generator runs.
MemberOfKind(member_details, generic, st) ==
    LET member_name == Quoted(member_details.member_name)
        member_type_details == member_details.member_type_details.val
        member_type == member_type_details.member_type
        kind == Fact(member_name \o <<" is a Python ", member_type, ".">>, 6)
        after(rendered) ==
            MemberAndKind(
                Chunks(SubSeq(generic, 1, 3)) \o <<kind.chunk, generic[4].chunk>>,
                rendered,
                CASE member_type = "enum" ->
                       generate_enum_member_dataset(
                           member_name \o <<" enum">>, member_details.member_docstring,
                           member_type_details, rendered.state)
                  [] member_type = "class" ->
                       generate_class_member_dataset(
                           member_name \o <<" class">>, member_details.member_docstring,
                           member_type_details, rendered.state)
                  [] member_type = "function" ->
                       generate_function_member_dataset(
                           member_name \o <<" function">>, member_details.member_docstring,
                           member_type_details, rendered.state)
                  [] OTHER -> [result |-> Err("ValueError"), batches |-> <<>>,
                               state |-> rendered.state])
    IN after(RenderFacts(Append(generic, kind), st))

\* generate_member_dataset, lines 2712-2950: the tuple of Datasets or the error
\* raised, and the generator state left.
generate_member_dataset(member_details, st) ==
    LET member == Quoted(member_details.member_name) \o <<" object">>
        member_docstring == member_details.member_docstring
        dispatch(generic) ==
            IF member_details.member_type_details = None
            THEN MemberAlone(Appended(<<Quoted(member_details.member_name)
                                        \o <<" is a Python object.">>>>, FALSE, generic, st))
            ELSE MemberOfKind(member_details, generic, st)
    IN dispatch(
        <<Fact(member \o <<" is part of parent module ">> \o member_details.member_module
               \o <<".">>, 6),
          Fact(<<"Full name of ">> \o member \o <<" is ">>
               \o Quoted(member_details.member_qualified_name) \o <<".">>, 6),
          Fact(<<"Hierarchy of ">> \o member \o <<" is as follows: ">>
               \o Enumerated(member_details.member_hierarchy) \o <<".">>, 6),
          IF member_docstring = <<>>
          THEN Fact(<<"Unfortunately, ">> \o member
                    \o <<" currently does not have any documentation.">>, 5)
          ELSE Fact(<<"The following is the documentation of ">> \o member \o <<": ">>
                    \o Quoted(member_docstring) \o <<".">>, 6)>>)

(***************************************************************************)
(* generate_member_dataset called on its own.  The argument is a           *)
(* MemberDetails instance: one made by get_all_member_details, or one      *)
(* whose member_type is a kind the match of lines 2927-2943 has no case    *)
(* for (an instance is not validated again by validate_call).              *)
(***************************************************************************)
\* The module names a member record is made for.
MemberModules == {<<"a", ".", "m">>, <<"a", ".", "b", ".", "m">>}

\* The records get_all_member_details makes of the member objects.
ClassifiedMembers ==
    {r.val : r \in {d \in {get_all_member_details(n, MemberObjects[i].member_name,
                                                  MemberObjects[i]) :
                              n \in MemberModules, i \in 1..Len(MemberObjects)} : d.ok}}

\* The same records with a kind outside enum, class and function.
UnsupportedMembers ==
    {[r EXCEPT !.member_type_details.val.member_type = "module"] :
        r \in {c \in ClassifiedMembers : c.member_type_details # None}}

InitMember ==
    /\ WalkIdle
    /\ files = [p \in Paths |-> Absent]
    /\ random_state \in {StreamState(n) : n \in 0..MaxPriorDraws}
    /\ \E member_details \in ClassifiedMembers \cup UnsupportedMembers :
           call = [fn |-> "generate_member_dataset", argument |-> member_details]
    /\ returned = NotReturned

\* generate_member_dataset runs.
GenerateMember ==
    /\ call.fn = "generate_member_dataset"
    /\ returned = NotReturned
    /\ LET after(generated) ==
               /\ returned' = generated.result
               /\ random_state' = generated.state
       IN after(generate_member_dataset(call.argument, random_state))
    /\ UNCHANGED <<call, walk_vars, files>>

SpecMember == InitMember /\ [][GenerateMember]_vars

MaxParameters == 1   \* a signature has at most this many parameters

\* The signatures: the i-th parameter is named p<i>; a default or an annotation is
\* missing, None, or another object.
Signatures ==
    UNION {[1..n -> {inspect_empty, PyNone, PyValue(<<"1">>)}
                    \X {inspect_empty, PyNone, PyValue(<<"i", "n", "t">>)}] :
           n \in 0..MaxParameters}

\* The Parameters sections: empty, or one entry for p1, without or with a type.
DocstringParameters ==
    {<<>>} \cup {<<[name |-> <<"p", "1">>, type |-> t, desc |-> <<"d">>]>> :
                    t \in {<<>>, <<"s", "t", "r">>}}

\* The Returns and Raises sections: empty, or one entry, without or with a type.
DocstringEntries(types) ==
    {<<>>} \cup {<<[type |-> t, desc |-> <<"d">>]>> : t \in types}

\* The objects described: those of MemberObjects, each also with a signature that
\* inspect.signature cannot read, and the class K and the function f with every
\* signature and docstring.
DescribedObjects ==
    {MemberObjects[i] : i \in 1..Len(MemberObjects)}
    \cup {[MemberObjects[i] EXCEPT !.signature = "ValueError"] : i \in 1..Len(MemberObjects)}
    \cup UNION {{[MemberObjects[k] EXCEPT
                     !.parameters = [i \in 1..Len(sig) |->
                                        [name |-> <<"p", DigitChar(i)>>,
                                         default |-> sig[i][1], annotation |-> sig[i][2],
                                         kind |-> <<"positional or keyword">>]],
                     !.doc_parameters = dp,
                     !.return_annotation = IF k = 3 THEN ret[1] ELSE inspect_empty,
                     !.doc_returns = IF k = 3 THEN ret[2] ELSE <<>>,
                     !.doc_raises = IF k = 3 THEN ret[3] ELSE <<>>] :
                   sig \in Signatures, dp \in DocstringParameters,
                   ret \in {inspect_empty, PyNone, PyValue(<<"i", "n", "t">>)}
                           \X DocstringEntries({<<>>, <<"b", "o", "o", "l">>})
                           \X DocstringEntries({<<"E">>})} :
                 k \in {2, 3}}

InitDetails ==
    /\ WalkIdle
    /\ files = [p \in Paths |-> Absent]
    /\ random_state = StreamState(0)
    /\ \E module_name \in MemberModules, member_object \in DescribedObjects :
           call = [fn |-> "get_all_member_details", module_name |-> module_name,
                   member_name |-> member_object.member_name,
                   member_object |-> member_object]
    /\ returned = NotReturned

\* get_all_member_details runs.
Describe ==
    /\ call.fn = "get_all_member_details"
    /\ returned = NotReturned
    /\ returned' = get_all_member_details(call.module_name, call.member_name,
                                          call.member_object)
    /\ UNCHANGED <<call, random_state, walk_vars, files>>

\* generate_member_dataset runs on the record made: what it returns or raises, the
\* generator state it leaves, and the batches allocate_tuning_pairs returned to it.
GenerateDescribed ==
    /\ call.fn = "get_all_member_details"
    /\ returned.ok
    /\ LET after(generated) ==
               /\ returned' = generated.result
               /\ random_state' = generated.state
               /\ allocated' = [i \in 1..Len(generated.batches) |->
                                   [build |-> 1, result |-> generated.batches[i]]]
       IN after(generate_member_dataset(returned.val, random_state))
    /\ call' = [fn |-> "generate_member_dataset", argument |-> returned.val,
                member_object |-> call.member_object]
    /\ UNCHANGED <<world, pc, sub_packages_stack, package_contents, walk_log,
                   all_module_contents, all_member_details, member_datasets, raw_datasets,
                   json_datasets, files, callback, perf_counter>>

SpecDetails == InitDetails /\ [][Describe \/ GenerateDescribed]_vars

\* get_all_member_details has returned or raised for the object of the call.
C22_Described == call.fn = "get_all_member_details" /\ returned # NotReturned

\* The kind of the type details of the record returned: enum, class, function, or
\* "object" for a record without type details.
C22_KindReturned ==
    IF returned.val.member_type_details = None THEN "object"
    ELSE returned.val.member_type_details.val.member_type

RenderedChunks ==
    {SubSeq(allocated[i].result[1][1], 4, Len(allocated[i].result[1][1])) :
        i \in 1..Len(allocated)}

\* The type the docstring declares for a name, or PyNone when it declares none.
C23_Declared(entries) ==
    IF entries # <<>> /\ Last(entries).type # <<>> THEN PyValue(Last(entries).type)
    ELSE PyNone

\* The record made for the object of the call.
C23_Record ==
    IF call.fn = "get_all_member_details" THEN returned.val ELSE call.argument

\* The details recorded for the class or function of the call.
C23_Recorded == C23_Record.member_type_details.val

\* The parameters recorded.
C23_Parameters ==
    IF C23_Recorded.member_type = "class" THEN C23_Recorded.class_parameters
    ELSE C23_Recorded.function_parameters

\* C23: for every parameter and for the return value the annotation recorded is
\* the type the docstring declares, else the signature's annotation, which is the
\* marker inspect._empty when there is none; the marker is not None, and the
\* generator reports a default None as a default and an annotation None as an
\* annotation.
C23_AnnotationPrecedence ==
    (/\ call.fn \in {"get_all_member_details", "generate_member_dataset"}
     /\ IF call.fn = "get_all_member_details" THEN returned.ok ELSE TRUE
     /\ C23_Record.member_type_details # None
     /\ C23_Recorded.member_type \in {"class", "function"})
    =>
    LET member_object == call.member_object
        class == C23_Recorded.member_type = "class"
        owner == Quoted(member_object.member_name)
                 \o (IF class THEN <<" class">> ELSE <<" function">>)
    IN /\ inspect_empty # PyNone
       /\ Len(C23_Parameters) = Len(member_object.parameters)
       /\ \A i \in 1..Len(member_object.parameters) :
              LET parameter == member_object.parameters[i]
                  declared == C23_Declared(SelectSeq(member_object.doc_parameters,
                                                     LAMBDA d : d.name = parameter.name))
                  argument == Quoted(parameter.name) \o <<" argument in ">> \o owner
              IN /\ C23_Parameters[i].parameter_annotation =
                        (IF declared # PyNone THEN declared ELSE parameter.annotation)
                 /\ C23_Parameters[i].parameter_default = parameter.default
                 /\ call.fn = "generate_member_dataset" =>
                        /\ ((IF class THEN argument \o <<" does not have a default value.">>
                              ELSE argument \o <<" has no default value.">>)
                                \in RenderedChunks) <=> parameter.default = inspect_empty
                        /\ ((IF class
                              THEN <<"Type hint for ">> \o argument \o <<" is unavailable.">>
                              ELSE <<"Unfortunately, type hint for ">> \o argument
                                   \o <<" is missing.">>)
                                \in RenderedChunks)
                               <=> (declared = PyNone /\ parameter.annotation = inspect_empty)
       /\ C23_Recorded.member_type = "function" =>
              LET declared == C23_Declared(member_object.doc_returns)
                  recorded == C23_Recorded.function_returns.returns_annotation
              IN /\ recorded = (IF declared # PyNone THEN declared
                                ELSE member_object.return_annotation)
                 /\ call.fn = "generate_member_dataset" =>
                        ((owner \o <<" has no return annotation, but its return can still be non-null.">>
                             \in RenderedChunks)
                         <=> (declared = PyNone
                              /\ member_object.return_annotation = inspect_empty))

\* A function whose parameter has the default None and the annotation None, with no
\* type in the docstring, was described and rendered: None is recorded for both and
\* both are reported as present.
C23_Witness ==
    /\ call.fn = "generate_member_dataset"
    /\ C23_Record.member_type_details # None
    /\ C23_Recorded.member_type = "function"
    /\ Len(call.member_object.parameters) = 1
    /\ call.member_object.doc_parameters = <<>>
    /\ call.member_object.parameters[1].default = PyNone
    /\ call.member_object.parameters[1].annotation = PyNone
    /\ C23_Parameters[1].parameter_annotation = PyNone
    /\ <<"'", "p", "1", "'", " argument in ", "'", "f", "'", " function",
          " has ", "'", "None", "'", " as type annotation.">> \in RenderedChunks
    /\ <<"'", "p", "1", "'", " argument in ", "'", "f", "'", " function",
          " has the default value of ", "None", ".">> \in RenderedChunks

\* The chunk of the absent branch for the member of the call: the sentence about
\* exceptions of a function, the sentence about arguments of a class.
C24_AbsentChunk ==
    IF C23_Recorded.member_type = "function"
    THEN Quoted(call.argument.member_name)
         \o <<" function", " does not document any specific exceptions in the docstring.">>
    ELSE Quoted(call.argument.member_name)
         \o <<" class", " requires no arguments for instantiation.">>

\* C24: a function whose docstring has no Raises section, and a class whose
\* constructor takes no parameters, are rendered without a crash: the generator
\* returns datasets, and the member's dataset holds the chunk of the absent branch.
C24_AbsenceRendered ==
    (/\ call.fn = "generate_member_dataset"
     /\ call.argument.member_type_details # None
     /\ \/ /\ C23_Recorded.member_type = "function"
           /\ C23_Recorded.function_raises = <<>>
        \/ /\ C23_Recorded.member_type = "class"
           /\ C23_Recorded.class_parameters = <<>>)
    => /\ returned.ok
       /\ \E i \in 1..Len(returned.val[1].retrieval_chunks) :
              returned.val[1].retrieval_chunks[i] = C24_AbsentChunk

\* C25: every fact the member generators render hands one batch of 5 or 6 pairs to
\* allocate_tuning_pairs, and the datasets returned for the record hold one tuning
\* document for each pair allocated.
C25_OneDocumentPerPair ==
    call.fn = "generate_member_dataset" =>
        /\ \A i \in 1..Len(allocated) : Len(allocated[i].result) \in {5, 6}
        /\ returned.ok
        /\ Len(Join([d \in 1..Len(returned.val) |-> returned.val[d].tuning_documents],
                    <<>>))
              = Len(Join([i \in 1..Len(allocated) |-> allocated[i].result], <<>>))

(***************************************************************************)
(* Two builds of the same root package in one process, followed one        *)
(* allocate_tuning_pairs call at a time.  Both have walked the root 'a',   *)
(* which has no children, and both run generate_package_dataset on its     *)
(* record; each call draws from the one generator of the random module.    *)
(***************************************************************************)
\* The calls build b has made, in order.
CallsOf(b) == SelectSeq(allocated, LAMBDA c : c.build = b)

\* package_tuning_pairs of build b: the triples its calls have returned.
package_tuning_pairs(b) == Join([i \in 1..Len(CallsOf(b)) |-> CallsOf(b)[i].result], <<>>)

InitInterleave ==
    /\ world = [root |-> <<"a">>, root_status |-> "ok", nodes |-> {}, status |-> <<>>]
    /\ pc = [b \in Builds |-> "members"]
    /\ sub_packages_stack = [b \in Builds |-> <<>>]
    /\ package_contents =
           [b \in Builds |-> <<PackageDetails(world, <<"a">>, None, <<>>, <<>>)>>]
    /\ walk_log = [b \in Builds |-> <<[name |-> <<"a">>, outcome |-> "emitted"]>>]
    /\ BuildIdle
    /\ CallIdle
    /\ random_state = Seed

\* The next package_tuning_pairs.extend(allocate_tuning_pairs(...)) of build b's
\* generate_package_dataset; after the last one, the Dataset of line 616 is built.
AllocateNext(b) ==
    /\ pc[b] = "members"
    /\ LET facts == PackageFacts(package_contents[b][1])
           k == Len(CallsOf(b)) + 1
           after(r) ==
               /\ allocated' = Append(allocated, [build |-> b, result |-> r.result.val])
               /\ random_state' = r.state
               /\ pc' = [pc EXCEPT ![b] =
                      IF k < Len(facts) THEN "members"
                      ELSE IF Dataset([retrieval_chunks |-> Chunks(facts),
                                       tuning_pairs |->
                                           package_tuning_pairs(b) \o r.result.val]).ok
                      THEN "raw" ELSE "ValidationError"]
       IN after(allocate_tuning_pairs(facts[k].tuning_pairs, DEFAULT_SPLIT_PROPORTIONS,
                                      random_state))
    /\ UNCHANGED <<world, sub_packages_stack, package_contents, walk_log,
                   all_module_contents, all_member_details, member_datasets, raw_datasets,
                   json_datasets, call, returned, files, callback, perf_counter>>

SpecInterleave == InitInterleave /\ [][\E b \in Builds : AllocateNext(b)]_vars

\* The label the n-th draw since the seeding gives.
C19_StreamLabel(n) ==
    Choices(StreamState(n - 1), <<"train", "validation", "test">>,
            <<DEFAULT_SPLIT_PROPORTIONS.train_proportion,
              DEFAULT_SPLIT_PROPORTIONS.validation_proportion,
              DEFAULT_SPLIT_PROPORTIONS.test_proportion>>, 1).picks[1]

\* The triples of all calls, in call order.
C19_AllTriples == Join([i \in 1..Len(allocated) |-> allocated[i].result], <<>>)

\* C19: both builds draw from the one global stream: the n-th triple allocated in
\* the process, by whichever build, carries the label of the stream's n-th draw and
\* the stream has advanced by one draw per triple; so the labels of a build are
\* those of the stream positions its calls took, and only a build whose calls all
\* came first has the labels of a build running alone.
C19_SharedStream ==
    /\ random_state = StreamState(Len(C19_AllTriples))
    /\ \A n \in 1..Len(C19_AllTriples) : C19_AllTriples[n][3] = C19_StreamLabel(n)
    /\ \A b \in Builds :
           (\A i \in 1..Len(CallsOf(b)) : allocated[i].build = b)
           => \A n \in 1..Len(package_tuning_pairs(b)) :
                  package_tuning_pairs(b)[n][3] = C19_StreamLabel(n)

\* Both builds have made all their calls, interleaved, and a pair of build 1 has a
\* label other than the one it has when build 1's calls all come first.
C19_Witness ==
    /\ \A b \in Builds : pc[b] # "members"
    /\ allocated[1].build = 1 /\ allocated[2].build = 2
    /\ \E n \in 1..Len(package_tuning_pairs(1)) :
           package_tuning_pairs(1)[n][3] # C19_StreamLabel(n)

(***************************************************************************)
(* orchestrate_generation.py: generate_raw_datasets and                    *)
(* generate_json_dataset, and a full build: generate, convert, store.      *)
(* Builds run in one process and share the random stream.                  *)
(***************************************************************************)
\* generate_json_dataset, lines 81-110
generate_json_dataset(datasets) ==
    JSONDataset(JDict(
        [retrieval_documents |->
             JList(Join([i \in 1..Len(datasets) |->
                            [j \in 1..Len(datasets[i].retrieval_chunks) |->
                                JStr(Escape(datasets[i].retrieval_chunks[j]))]], <<>>)),
         tuning_documents |->
             JList(Join([i \in 1..Len(datasets) |->
                            [j \in 1..Len(datasets[i].tuning_documents) |->
                                LET document == datasets[i].tuning_documents[j]
                                IN JDict([context |-> JStr(Escape(document.context)),
                                          question |-> JStr(Escape(document.question)),
                                          answer |-> JStr(Escape(document.answer)),
                                          split |-> JStr(SplitValue(document.split))])]],
                        <<>>))]))

\* The file a build stores its dataset in.
dataset_file(b) == IF b = 1 THEN "p1" ELSE "p2"

\* generate_raw_datasets(package_name) is called by build b: lines 81-83 of the walker.
StartBuild(b) ==
    /\ pc[b] = "idle"
    /\ pc' = [pc EXCEPT ![b] = "walk"]
    /\ sub_packages_stack' = [sub_packages_stack EXCEPT ![b] = <<<<Dotted(world.root), None>>>>]
    /\ UNCHANGED <<world, package_contents, walk_log, build_vars, random_state, call,
                   returned, files>>

\* The loop of lines 41-54: every module of every package record is imported and
\* described; one that raises ImportError is logged under its name in the package
\* (LOGGER.warning, line 50) and skipped.
EnlistModules(b) ==
    /\ pc[b] = "walked"
    /\ LET modules ==
               Join([i \in 1..Len(package_contents[b]) |->
                        [j \in 1..Len(package_contents[b][i].children_modules_names) |->
                            [module |-> package_contents[b][i].children_modules_names[j],
                             module_contents |->
                                 get_all_module_contents(
                                     world,
                                     package_contents[b][i].package_qualified_name \o DOT
                                     \o package_contents[b][i].children_modules_names[j])]]],
                    <<>>)
           kept == SelectSeq(modules, LAMBDA r : r.module_contents.ok)
           failed == SelectSeq(modules, LAMBDA r : ~r.module_contents.ok)
       IN /\ all_module_contents' = [all_module_contents EXCEPT ![b] =
                 [i \in 1..Len(kept) |-> kept[i].module_contents.val]]
          /\ walk_log' = [walk_log EXCEPT ![b] =
                 @ \o [i \in 1..Len(failed) |->
                          [name |-> failed[i].module, outcome |-> "skipped"]]]
    /\ pc' = [pc EXCEPT ![b] = "modules"]
    /\ UNCHANGED <<world, sub_packages_stack, package_contents, all_member_details,
                   member_datasets, raw_datasets, json_datasets, random_state, call,
                   returned, files, allocated, callback, perf_counter>>

\* The loop of lines 58-70: every member of every module is described; one whose
\* inspection raises TypeError or ValueError is skipped (a bare continue, line 66:
\* nothing is logged).
EnlistMembers(b) ==
    /\ pc[b] = "modules"
    /\ LET described ==
               Join([i \in 1..Len(all_module_contents[b]) |->
                        [j \in 1..Len(all_module_contents[b][i].module_members) |->
                            get_all_member_details(
                                all_module_contents[b][i].module_qualified_name,
                                all_module_contents[b][i].module_members[j].member_name,
                                all_module_contents[b][i].module_members[j].member_object)]],
                    <<>>)
       IN all_member_details' = [all_member_details EXCEPT ![b] =
              LET kept == SelectSeq(described, LAMBDA r : r.ok)
              IN [i \in 1..Len(kept) |-> kept[i].val]]
    /\ pc' = [pc EXCEPT ![b] = "members"]
    /\ UNCHANGED <<world, sub_packages_stack, package_contents, walk_log, all_module_contents,
                   member_datasets, raw_datasets, json_datasets, random_state, call,
                   returned, files, allocated, callback, perf_counter>>

\* The next step of lines 72-78: while unpacking *member_datasets, the next
\* generate_member_dataset call; then, while list() consumes the chain, the next
\* generate_package_dataset call, then the next generate_module_dataset call, then the
\* member tuples already made; an error raised by a generator ends the build.
Generate(b) ==
    /\ pc[b] = "members"
    /\ LET members_done == Len(member_datasets[b])
           chained == Len(raw_datasets[b])
           packages == Len(package_contents[b])
           modules == Len(all_module_contents[b])
           fn == IF members_done < Len(all_member_details[b]) THEN "generate_member_dataset"
                 ELSE IF chained < packages THEN "generate_package_dataset"
                 ELSE IF chained < packages + modules THEN "generate_module_dataset"
                 ELSE "none"
           argument ==
               CASE fn = "generate_member_dataset" -> all_member_details[b][members_done + 1]
                 [] fn = "generate_package_dataset" -> package_contents[b][chained + 1]
                 [] fn = "generate_module_dataset" ->
                        all_module_contents[b][chained - packages + 1]
                 [] OTHER -> None
           outcome(generated) ==
               /\ random_state' = generated.state
               /\ IF fn = "none"
                  THEN /\ raw_datasets' = [raw_datasets EXCEPT ![b] =
                                               @ \o Join(member_datasets[b], <<>>)]
                       /\ pc' = [pc EXCEPT ![b] = "raw"]
                       /\ UNCHANGED <<member_datasets, call, returned>>
                  ELSE /\ call' = [fn |-> fn, argument |-> argument]
                       /\ returned' = generated.result
                       /\ pc' = [pc EXCEPT ![b] = IF generated.result.ok THEN "members"
                                                  ELSE generated.result.err]
                       /\ member_datasets' =
                              IF fn = "generate_member_dataset" /\ generated.result.ok
                              THEN [member_datasets EXCEPT ![b] =
                                       Append(@, generated.result.val)]
                              ELSE member_datasets
                       /\ raw_datasets' =
                              IF fn # "generate_member_dataset" /\ generated.result.ok
                              THEN [raw_datasets EXCEPT ![b] =
                                       Append(@, generated.result.val)]
                              ELSE raw_datasets
       IN outcome(CASE fn = "generate_member_dataset" ->
                          generate_member_dataset(argument, random_state)
                    [] fn = "generate_package_dataset" ->
                          generate_package_dataset(argument, random_state)
                    [] fn = "generate_module_dataset" ->
                          generate_module_dataset(argument, random_state)
                    [] OTHER -> [result |-> Ok(<<>>), state |-> random_state])
    /\ UNCHANGED <<world, sub_packages_stack, package_contents, walk_log, all_module_contents,
                   all_member_details, json_datasets, files, allocated, callback,
                   perf_counter>>

\* json_dataset = generate_json_dataset(raw_datasets)
Convert(b) ==
    /\ pc[b] = "raw"
    /\ LET converted == generate_json_dataset(raw_datasets[b])
       IN /\ json_datasets' = [json_datasets EXCEPT ![b] =
                                   IF converted.ok THEN Some(converted.val) ELSE None]
          /\ pc' = [pc EXCEPT ![b] = IF converted.ok THEN "json" ELSE converted.err]
    /\ UNCHANGED <<world, sub_packages_stack, package_contents, walk_log, all_module_contents,
                   all_member_details, member_datasets, raw_datasets, random_state, call,
                   returned, files, allocated, callback, perf_counter>>

\* store_json_dataset(json_dataset, dataset_file)
StoreDataset(b) ==
    /\ pc[b] = "json"
    /\ files' = store_json_dataset(files, json_datasets[b].val, dataset_file(b))
    /\ pc' = [pc EXCEPT ![b] = "stored"]
    /\ UNCHANGED <<world, sub_packages_stack, package_contents, walk_log, build_vars,
                   random_state, call, returned>>

Init ==
    /\ world \in BuildWorlds
    /\ pc = [b \in Builds |-> "idle"]
    /\ sub_packages_stack = [b \in Builds |-> <<>>]
    /\ package_contents = [b \in Builds |-> <<>>]
    /\ walk_log = [b \in Builds |-> <<>>]
    /\ BuildIdle
    /\ CallIdle
    /\ random_state = Seed

Next ==
    \E b \in Builds :
        \/ StartBuild(b)
        \/ WalkStep(b) /\ UNCHANGED <<random_state, call, returned, files>>
        \/ EnlistModules(b)
        \/ EnlistMembers(b)
        \/ Generate(b)
        \/ Convert(b)
        \/ StoreDataset(b)

Spec == Init /\ [][Next]_vars

(***************************************************************************)
(* top_level.py: create_dataset and create_database.  The dataset file is  *)
(* path "p1" and the database directory path "p2"; a directory holds the   *)
(* documents of the vector store persisted in it.  create_dataset is       *)
(* followed through the steps of its build (build 1); create_database is   *)
(* one step, and pc[2] is its position.  The texts are shorter than the    *)
(* splitter's chunk size and start and end with a visible character;       *)
(* failures inside the embedding libraries are left out.                   *)
(***************************************************************************)
\* load_json_documents, step_1_retrieval.py lines 16-32: JSONLoader with the jq
\* schema ".retrieval_documents[]" and string content.
load_json_documents(fs, file_path) ==
    LET object == fs[file_path].content
    IN IF object.t # "dict" THEN Err("ValueError")
       ELSE IF "retrieval_documents" \notin DOMAIN object.v THEN Err("ValueError")
       ELSE IF object.v["retrieval_documents"].t # "list" THEN Err("ValueError")
       ELSE LET items == object.v["retrieval_documents"].v
                texts == [i \in 1..Len(items) |->
                             IF items[i].t = "str" THEN Unescape(items[i].v)
                             ELSE Err("ValueError")]
            IN IF \E i \in 1..Len(texts) : ~texts[i].ok THEN Err("ValueError")
               ELSE Ok([i \in 1..Len(texts) |-> texts[i].val])

\* partition_documents, step_1_retrieval.py lines 35-56: a text within the chunk
\* size is one chunk, an empty text gives none.
partition_documents(raw_documents) == SelectSeq(raw_documents, LAMBDA d : d # <<>>)

\* load_source_documents, orchestrate_retrieval.py lines 31-47
load_source_documents(fs, file_path) ==
    LET raw_documents == load_json_documents(fs, file_path)
    IN IF raw_documents.ok THEN Ok(partition_documents(raw_documents.val))
       ELSE raw_documents

\* The database deleted before force is looked at.
create_database_DeleteFirst(fs, dataset_path, database_directory, force) ==
    LET removed == [fs EXCEPT ![database_directory] = Absent]
    IN IF fs[database_directory] # Absent /\ ~force
       THEN [result |-> Err("FileExistsError"), files |-> removed]
       ELSE [result |-> Err("FileNotFoundError"), files |-> removed]

\* create_database, top_level.py lines 67-117: what it returns or raises, and the
\* file system it leaves.
create_database(fs, dataset_path, database_directory, force) ==
    IF fs[database_directory] # Absent /\ ~force
    THEN [result |-> Err("FileExistsError"), files |-> fs]
    ELSE LET removed == [fs EXCEPT ![database_directory] = Absent]
             stored(source_documents) ==
                 IF ~source_documents.ok
                 THEN [result |-> source_documents, files |-> removed]
                 ELSE [result |-> Ok(database_directory),
                       files |-> [removed EXCEPT ![database_directory] =
                                     [exists |-> TRUE, content |-> source_documents.val]]]
         IN IF removed[dataset_path] = Absent
            THEN [result |-> Err("FileNotFoundError"), files |-> removed]
            ELSE stored(load_source_documents(removed, dataset_path))

\* What the two paths may hold before a call: no dataset file, or one stored by an
\* earlier create_dataset; no database directory, or one persisted earlier.
ExistingFiles ==
    {[p \in Paths |-> IF p = "p1" THEN f ELSE d] :
        f \in {Absent} \cup {[exists |-> TRUE, content |-> json_dump(j)] :
                                j \in {[retrieval_documents |-> r, tuning_documents |-> <<>>] :
                                          r \in {<<>>, <<<<"o", "l", "d">>>>}}},
        d \in {Absent, [exists |-> TRUE, content |-> <<<<"o", "l", "d">>>>]}}

InitTopLevel ==
    /\ world \in BuildWorlds
    /\ pc = [b \in Builds |-> "idle"]
    /\ sub_packages_stack = [b \in Builds |-> <<>>]
    /\ package_contents = [b \in Builds |-> <<>>]
    /\ walk_log = [b \in Builds |-> <<>>]
    /\ BuildIdle
    /\ call = NoCall
    /\ returned = NotReturned
    /\ files \in ExistingFiles
    /\ random_state = Seed

\* create_dataset without the unlink of lines 56-57: the old file stays while the
\* dataset is generated.
CreateDataset_KeepsOld ==
    /\ pc[1] = "idle"
    /\ \E force \in BOOLEAN :
          /\ call' = [fn |-> "create_dataset", dataset_file |-> dataset_file(1),
                      force |-> force, before |-> files]
          /\ IF files[dataset_file(1)] # Absent /\ ~force
             THEN /\ returned' = Err("FileExistsError")
                  /\ pc' = [pc EXCEPT ![1] = "FileExistsError"]
                  /\ UNCHANGED sub_packages_stack
             ELSE /\ returned' = NotReturned
                  /\ pc' = [pc EXCEPT ![1] = "walk"]
                  /\ sub_packages_stack' =
                         [sub_packages_stack EXCEPT ![1] = <<<<Dotted(world.root), None>>>>]
    /\ UNCHANGED <<world, package_contents, walk_log, build_vars, random_state, files>>

\* create_dataset(package_name, dataset_file, force) is called: lines 50-57, up to
\* the call of generate_raw_datasets.
CreateDataset ==
    /\ pc[1] = "idle"
    /\ \E force \in BOOLEAN :
          /\ call' = [fn |-> "create_dataset", dataset_file |-> dataset_file(1),
                      force |-> force, before |-> files]
          /\ IF files[dataset_file(1)] # Absent /\ ~force
             THEN /\ returned' = Err("FileExistsError")
                  /\ pc' = [pc EXCEPT ![1] = "FileExistsError"]
                  /\ UNCHANGED <<files, sub_packages_stack>>
             ELSE /\ returned' = NotReturned
                  /\ files' = [files EXCEPT ![dataset_file(1)] = Absent]
                  /\ pc' = [pc EXCEPT ![1] = "walk"]
                  /\ sub_packages_stack' =
                         [sub_packages_stack EXCEPT ![1] = <<<<Dotted(world.root), None>>>>]
    /\ UNCHANGED <<world, package_contents, walk_log, build_vars, random_state>>

\* create_database(dataset_file, embedding_model, database_directory, force) runs,
\* while no create_dataset is under way.
CreateDatabase ==
    /\ pc[2] = "idle"
    /\ pc[1] \in {"idle", "stored", "FileExistsError", "ValueError", "ValidationError"}
    /\ \E force \in BOOLEAN :
          LET after(r) ==
                  /\ call' = [fn |-> "create_database", dataset_file |-> "p1",
                              database_directory |-> "p2", force |-> force,
                              before |-> files]
                  /\ returned' = r.result
                  /\ files' = r.files
                  /\ pc' = [pc EXCEPT ![2] = IF r.result.ok THEN "returned"
                                             ELSE r.result.err]
          IN after(create_database(files, "p1", "p2", force))
    /\ UNCHANGED <<world, sub_packages_stack, package_contents, walk_log, build_vars,
                   random_state>>

SpecTopLevel ==
    InitTopLevel
    /\ [][\/ CreateDataset
          \/ CreateDatabase
          \/ WalkStep(1) /\ UNCHANGED <<random_state, call, returned, files>>
          \/ EnlistModules(1)
          \/ EnlistMembers(1)
          \/ Generate(1)
          \/ Convert(1)
          \/ StoreDataset(1)]_vars

\* C20: a create_dataset or create_database call made with force false on a target
\* that exists has raised FileExistsError, and nothing was deleted or written (the
\* file system is as it was before the call) nor generated (no walk, no draw).
C20_NoForceNoTouch ==
    /\ (/\ call.fn = "create_dataset"
        /\ ~call.force
        /\ call.before[call.dataset_file] # Absent)
       => /\ returned = Err("FileExistsError")
          /\ pc[1] = "FileExistsError"
          /\ files = call.before
          /\ walk_log[1] = <<>> /\ package_contents[1] = <<>>
          /\ random_state = Seed
    /\ (/\ call.fn = "create_database"
        /\ ~call.force
        /\ call.before[call.database_directory] # Absent)
       => /\ returned = Err("FileExistsError")
          /\ files = call.before

\* create_dataset refused to replace the dataset file, and then create_database
\* refused to replace the database directory.
C20_Witness ==
    /\ pc[1] = "FileExistsError"
    /\ call.fn = "create_database"
    /\ ~call.force
    /\ call.before[call.database_directory] # Absent
    /\ returned = Err("FileExistsError")
    /\ files["p1"] # Absent /\ files["p2"] # Absent

(***************************************************************************)
(* information_retrieval/step_3_retrieval.py: CaptureDetailsCallback.  The *)
(* chain run of run_question_answer_chain makes one callback and the       *)
(* language model calls its handlers: on_llm_start when a generation       *)
(* starts, then on_llm_end when it ends, or on_llm_error, which the class  *)
(* inherits unchanged, when it fails.  call holds the last handler called, *)
(* with the clock readings of the generation and the duration of the last  *)
(* generation that ended, if any.                                          *)
(***************************************************************************)
MaxClock == 4   \* time.perf_counter() reads 0..MaxClock

\* The prompts argument of on_llm_start: one or two prompts.
Prompts ==
    {<<p>> : p \in {<<"P">>, <<"Q">>}}
    \cup {<<p, q>> : p \in {<<"P">>, <<"Q">>}, q \in {<<"P">>, <<"Q">>}}

\* __init__, lines 25-29, at the start of a run.
InitCallback ==
    /\ WalkIdle
    /\ files = [p \in Paths |-> Absent]
    /\ random_state = Seed
    /\ call = [fn |-> "__init__", completed |-> None]
    /\ returned = NotReturned

\* Time passes.
Tick ==
    /\ perf_counter < MaxClock
    /\ perf_counter' = perf_counter + 1
    /\ UNCHANGED <<world, pc, sub_packages_stack, package_contents, walk_log,
                   all_module_contents, all_member_details, member_datasets, raw_datasets,
                   json_datasets, allocated, callback, random_state, call, returned, files>>

\* on_llm_start, lines 31-60
on_llm_start ==
    /\ call.fn # "on_llm_start"
    /\ \E prompts \in Prompts :
           /\ callback' = [effective_prompt |-> Some(prompts[1]),
                           effective_duration |-> Some(perf_counter)]
           /\ call' = [fn |-> "on_llm_start", prompts |-> prompts, started |-> perf_counter,
                       completed |-> call.completed]
    /\ UNCHANGED <<world, pc, sub_packages_stack, package_contents, walk_log,
                   all_module_contents, all_member_details, member_datasets, raw_datasets,
                   json_datasets, allocated, perf_counter, random_state, returned, files>>

\* on_llm_end, lines 62-84
on_llm_end ==
    /\ call.fn = "on_llm_start"
    /\ callback' = [callback EXCEPT !.effective_duration =
                        Some(perf_counter - callback.effective_duration.val)]
    /\ call' = [fn |-> "on_llm_end", prompts |-> call.prompts, started |-> call.started,
                ended |-> perf_counter, completed |-> Some(perf_counter - call.started)]
    /\ UNCHANGED <<world, pc, sub_packages_stack, package_contents, walk_log,
                   all_module_contents, all_member_details, member_datasets, raw_datasets,
                   json_datasets, allocated, perf_counter, random_state, returned, files>>

\* on_llm_error of BaseCallbackHandler, which the class of line 14 does not override:
\* the generation failed, the attributes stay.
on_llm_error ==
    /\ call.fn = "on_llm_start"
    /\ call' = [fn |-> "on_llm_error", prompts |-> call.prompts, started |-> call.started,
                completed |-> call.completed]
    /\ UNCHANGED <<world, pc, sub_packages_stack, package_contents, walk_log,
                   all_module_contents, all_member_details, member_datasets, raw_datasets,
                   json_datasets, allocated, callback, perf_counter, random_state, returned,
                   files>>

SpecCallback == InitCallback /\ [][Tick \/ on_llm_start \/ on_llm_end \/ on_llm_error]_vars

\* C26: effective_duration is the time the language model took: after on_llm_start
\* followed by on_llm_end it is the end time minus the start time of that pair and
\* not negative, effective_prompt is the first prompt of that on_llm_start, and
\* whenever effective_duration is not None it is the duration of a generation that
\* ended.
C26_DurationOfPair ==
    /\ call.fn = "on_llm_end" =>
           /\ callback.effective_duration = Some(call.ended - call.started)
           /\ callback.effective_duration.val >= 0
           /\ callback.effective_prompt = Some(call.prompts[1])
    /\ callback.effective_duration # None =>
           /\ call.completed # None
           /\ callback.effective_duration = call.completed

\* The states in which a build has ended, with its file stored or with an error.
Ended(b) == pc[b] \in {"stored", "ValueError", "ValidationError"}

\* Every package of the world resolves and imports.
AllImportable ==
    world.root_status = "ok" /\ \A p \in DOMAIN world.status : world.status[p] = "ok"

\* C8: a call of generate_package_dataset, generate_module_dataset or
\* generate_member_dataset returns datasets, and every tuning document in them
\* has a question, an answer, a split label, and a context equal to the
\* space-separated join of the retrieval chunks of the record it was made from.
C8_ContextIsOwnChunks ==
    (call.fn \in {"generate_package_dataset", "generate_module_dataset",
                  "generate_member_dataset"} /\ returned # NotReturned)
    => /\ returned.ok
       /\ LET datasets == IF call.fn = "generate_member_dataset" THEN returned.val
                          ELSE <<returned.val>>
          IN \A i \in 1..Len(datasets) :
               \A j \in 1..Len(datasets[i].tuning_documents) :
                  LET document == datasets[i].tuning_documents[j]
                  IN /\ DOMAIN document = {"context", "question", "answer", "split"}
                     /\ document.split \in SplitName
                     /\ document.context = Join(datasets[1].retrieval_chunks, <<" ">>)

\* C2: when two builds of the same importable root package have both ended
\* in the same import state, both have written their JSON file and the two
\* files hold the same retrieval documents and the same tuning documents
\* with the same split labels, in the same order.
C2_BuildsAgree ==
    (AllImportable /\ \A b \in Builds : Ended(b))
    => /\ \A b \in Builds : files[dataset_file(b)] # Absent
       /\ files[dataset_file(1)] = files[dataset_file(2)]

\* C7: a generate_raw_datasets call that got past the walk returns a list:
\* one dataset per package record in the walker's order, then one per
\* module record, then the member datasets in order; and the converted
\* JSON dataset holds the concatenation of their chunk lists and of their
\* tuning-document lists, in that order, nothing lost or added.
C7_AssemblyOrder ==
    \A b \in Builds :
       (pc[b] \notin {"idle", "walk", "walked", "modules", "members", "ValueError"})
       => /\ pc[b] \in {"raw", "json", "stored"}
          /\ LET packages == Len(package_contents[b])
                 modules == Len(all_module_contents[b])
                 members == Join(member_datasets[b], <<>>)
             IN /\ Len(raw_datasets[b]) = packages + modules + Len(members)
                /\ Len(member_datasets[b]) = Len(all_member_details[b])
                /\ \A i \in 1..packages :
                      raw_datasets[b][i].retrieval_chunks[1] =
                          Quoted(package_contents[b][i].package_name)
                          \o <<" is a Python package.">>
                /\ \A i \in 1..modules :
                      raw_datasets[b][packages + i].retrieval_chunks[1] =
                          Quoted(all_module_contents[b][i].module_name)
                          \o <<" is a Python module.">>
                /\ SubSeq(raw_datasets[b], packages + modules + 1, Len(raw_datasets[b]))
                      = members
                /\ pc[b] \in {"json", "stored"} =>
                      /\ json_datasets[b].val.retrieval_documents =
                             Join([i \in 1..Len(raw_datasets[b]) |->
                                      raw_datasets[b][i].retrieval_chunks], <<>>)
                      /\ Len(json_datasets[b].val.tuning_documents) =
                             Len(Join([i \in 1..Len(raw_datasets[b]) |->
                                          raw_datasets[b][i].tuning_documents], <<>>))

\* C9: a call of generate_member_dataset returns one dataset for a member
\* without type details and two for an enum, a class or a function; of the
\* two, the first carries every retrieval chunk, generic and kind-specific,
\* and the second exactly two: the kind declaration and the docstring
\* sentence.
C9_MemberDatasets ==
    (call.fn = "generate_member_dataset" /\ returned # NotReturned)
    => /\ returned.ok
       /\ IF call.argument.member_type_details = None
          THEN Len(returned.val) = 1
          ELSE /\ Len(returned.val) = 2
               /\ Len(returned.val[2].retrieval_chunks) = 2
               /\ Len(returned.val[1].retrieval_chunks) > 5 + 2

\* C15: every record produced for the members of a module with qualified name M names
\* M itself as its owning module, and is the record of an object whose defining
\* module is M; an object imported into M from elsewhere yields no record.
C15_MemberLocality ==
    \A b \in Builds :
        \A i \in 1..Len(all_member_details[b]) :
            LET record == all_member_details[b][i]
                M == Join(SubSeq(record.member_hierarchy, 1,
                                 Len(record.member_hierarchy) - 1), DOT)
            IN /\ record.member_module = M
               /\ \E j \in 1..Len(world.module_members) :
                      /\ world.module_members[j].member_name = record.member_name
                      /\ world.module_members[j].getmodule = "module"

\* C16: when the introspection of one member raises TypeError or ValueError, the
\* build skips exactly that member and logs the skip, keeps the records of every
\* other member of every module in their order, and ends with their datasets made.
C16_FailingMemberSkipped ==
    \A b \in Builds :
        \A i \in 1..Len(all_module_contents[b]) :
            \A j \in 1..Len(all_module_contents[b][i].module_members) :
                LET module_contents == all_module_contents[b][i]
                    member == module_contents.module_members[j]
                    others == SelectSeq(module_contents.module_members,
                                        LAMBDA m : m.member_name # member.member_name)
                IN (/\ pc[b] \notin {"idle", "walk", "walked", "modules"}
                    /\ ~get_all_member_details(module_contents.module_qualified_name,
                                               member.member_name, member.member_object).ok)
                   => /\ \A k \in 1..Len(all_member_details[b]) :
                             all_member_details[b][k].member_name # member.member_name
                      /\ Len(all_member_details[b]) =
                             Len(all_module_contents[b]) * Len(others)
                      /\ \E k \in 1..Len(walk_log[b]) :
                             /\ walk_log[b][k].name = member.member_name
                             /\ walk_log[b][k].outcome = "skipped"
                      /\ Ended(b) =>
                             /\ pc[b] = "stored"
                             /\ Len(member_datasets[b]) = Len(all_member_details[b])

\* The modules listed among the children of the package records of build b, by
\* qualified name, in the order of the records.
ListedModules(b) ==
    Join([i \in 1..Len(package_contents[b]) |->
             [j \in 1..Len(package_contents[b][i].children_modules_names) |->
                 package_contents[b][i].package_qualified_name \o DOT
                 \o package_contents[b][i].children_modules_names[j]]], <<>>)

\* The module of that qualified name raises ImportError when imported.
Broken(module_name) ==
    \E p \in world.broken_modules : Dotted(world.root \o p) = module_name

C28_MembersDrawnFirst ==
    \A b \in Builds :
       /\ (pc[b] = "members" /\ raw_datasets[b] # <<>>)
          => Len(member_datasets[b]) = Len(all_member_details[b])
       /\ (pc[b] \notin {"idle", "walk", "walked", "modules", "members", "ValueError"})
          => /\ pc[b] \in {"raw", "json", "stored"}
             /\ Len(member_datasets[b]) = Len(all_member_details[b])
             /\ raw_datasets[b] =
                    SubSeq(raw_datasets[b], 1,
                           Len(package_contents[b]) + Len(all_module_contents[b]))
                    \o Join(member_datasets[b], <<>>)

\* C29: when create_database has ended by raising FileExistsError or
\* FileNotFoundError, the database directory holds what it held before the
\* call.
C29_DatabaseKept ==
    (call.fn = "create_database" /\ pc[2] \in {"FileExistsError", "FileNotFoundError"})
    => files[call.database_directory] = call.before[call.database_directory]

\* C30: once create_dataset has gone past its existence check, nothing is at
\* dataset_file while the dataset is walked, generated and converted, nor
\* after any of these has failed; a file is there again only when the call
\* has stored the converted dataset, and it then holds that dataset.
C30_DeletedNotRestored ==
    /\ pc[1] \notin {"idle", "stored", "FileExistsError"} => files[dataset_file(1)] = Absent
    /\ pc[1] = "stored"
       => files[dataset_file(1)] =
              [exists |-> TRUE, content |-> json_dump(json_datasets[1].val)]

\* create_dataset was called with force on an existing file and its generation
\* has failed.
C30_Witness ==
    /\ call.fn = "create_dataset"
    /\ call.force
    /\ call.before[dataset_file(1)] # Absent
    /\ pc[1] = "ValueError"
    /\ files[dataset_file(1)] = Absent
====
